---- MODULE Spec2Model ----
(***************************************************************************)
(* Deckard: the session orchestration engine of the terminal dashboard.    *)
(*                                                                         *)
(* The model has two parts that share one state:                           *)
(*   - the enrichment pipeline (fetchSessionsCmd): one cycle lists the     *)
(*     worktrees, starts one goroutine per session, joins them with a      *)
(*     WaitGroup and returns one sessionsLoadedMsg;                        *)
(*   - the event loop (Model.Update): the single owner of the Model        *)
(*     fields, which handles key presses and completion messages and       *)
(*     returns the commands to run next.                                   *)
(* SpecEnrich runs the pipeline step by step (goroutine by goroutine)      *)
(* under the refresh key; Spec runs the whole Update state machine with    *)
(* each background command run as one step.  SpecProbe runs one start-up   *)
(* cycle over every tmux and forge world, SpecDelete starts deckard in     *)
(* either worktree and runs the delete dialog, SpecNoRoot starts it        *)
(* outside any repository, and SpecFair is Spec with the handling of       *)
(* returned commands made weakly fair.  SpecForge runs one cycle over      *)
(* every answer of the forge CLI on either backend, SpecSlug parses        *)
(* worktree listings over every branch name, and SpecCreatePR runs the     *)
(* create-review dialog and command over pushed and unpushed branches.     *)
(* SpecDialog stays in the create-review dialog for a longer run of keys,  *)
(* SpecDeleteRace runs the delete dialog against the refresh pipeline      *)
(* over three worktrees, and SpecEnsure runs tmux.EnsureSession as two     *)
(* steps so that two attach commands can interleave.                       *)
(***************************************************************************)
EXTENDS Integers, Sequences, FiniteSets, TLC

\* ------------------------------------------------------------------ bounds

\* Enrichment cycles dispatched in one behaviour (the code has no cap).
MaxCycles == 2

\* Keys the user presses in one behaviour.
MaxKeys == 4

\* Review candidates the forge CLI lists for one branch.
MaxCandidates == 2

\* Characters in a branch name.
MaxLen == 3

\* Keys the user presses in one behaviour of a specification that runs a
\* single dialog.
MaxDialogKeys == 6

\* ------------------------------------------------------- values of the code

\* The worktrees git can list; "main" is the primary one (path = repo root).
Slugs == {"main", "feat"}

\* The main working tree: git worktree list names it first and git worktree
\* remove refuses it.
Primary == "main"

\* git.RepoRoot returns "" when git rev-parse --show-toplevel fails: the
\* working directory is in no repository.  There git worktree list fails
\* as well.
NoRoot == ""

\* Pane contents tmux capture-pane can return.
Snapshots == {0, 1}

\* tmux has-session exits non-zero: no session of that name.
NoTmux == <<"absent">>
\* tmux has-session cannot be run at all (no server, no binary).
TmuxErr == <<"err">>
\* What the tmux server holds for a slug: nothing, a failure, or a session
\* whose pane shows a first and then (300 ms later) a second content.
TmuxStates == {NoTmux, TmuxErr} \cup (Snapshots \X Snapshots)

\* model.PR, reduced to the two fields the attention flag reads and the
\* draft flag; the reviews the probes meet are published ones.
PRs == [PipelineStatus : {"success", "failed"}, HasUnresolved : BOOLEAN, Draft : {FALSE}]
NoPR == [nil |-> TRUE]
\* What the forge CLI answers for a branch: a failure (timeout, non-zero
\* exit, unparsable output), an empty candidate list, or a review.
ForgeErr == [fail |-> TRUE]
ForgeEmpty == [empty |-> TRUE]
ForgeStates == {ForgeErr, ForgeEmpty} \cup PRs
\* A branch that was never pushed: it has no upstream, and so no review.
NoUpstream == [upstream |-> FALSE]

\* m.forge: a detected backend, or nil.
NoForge == "nil"
Forges == {NoForge, "gitlab"}
\* The two backends forge.Detect can return.
Backends == {"gitlab", "github"}

\* A nil pointer in the decoded JSON.
Nil == [nil |-> TRUE]

\* glabMR, as json.Unmarshal fills it from glab mr list -F json.  The
\* pipeline statuses are the ones pipelineLabel knows.
GlabPipelineStatuses ==
    {"success", "failed", "running", "pending", "canceled", "skipped",
     "waiting_for_resource", "preparing", "scheduled"}
glabMR ==
    [IID : {0},
     State : {"opened", "merged", "closed"},
     Draft : {FALSE},
     Pipeline : {Nil} \cup [Status : GlabPipelineStatuses],
     BlockingDiscussionsResolved : {Nil, [v |-> FALSE]}]

\* ghPR, as json.Unmarshal fills it from gh pr list --json; "NEUTRAL"
\* stands for any roll-up ghCIStatus does not name.
GhRollups ==
    {"SUCCESS", "FAILURE", "ERROR", "PENDING", "EXPECTED", "STALE", "", "NEUTRAL"}
ghPR ==
    [Number : {0},
     State : {"OPEN", "MERGED", "CLOSED"},
     IsDraft : {FALSE},
     StatusCheckRollup : GhRollups,
     ReviewDecision : {"", "CHANGES_REQUESTED"}]

\* What running the forge CLI gives: a non-zero exit (or no binary), the
\* 10 s timeout, output json.Unmarshal rejects, or a list of candidates,
\* numbered in the order the CLI returned them.
CliFailures == {[cli |-> "exit"], [cli |-> "timeout"], [cli |-> "garbage"]}
Numbered(cands, field) ==
    [i \in DOMAIN cands |-> [cands[i] EXCEPT ![field] = i]]
CandidateLists(set, field) ==
    UNION {{Numbered(l, field) : l \in [1..n -> set]} : n \in 0..MaxCandidates}
CliAnswers(backend) ==
    CliFailures \cup
    {[cli |-> "json", list |-> l] :
        l \in IF backend = "gitlab" THEN CandidateLists(glabMR, "IID")
               ELSE CandidateLists(ghPR, "Number")}

NoErr == "nil"

VARIABLES
    \* --- Model (owned by the event loop)
    sessions,      \* m.sessions: the published session list
    items,         \* m.list's items, as buildItems set them
    loading,       \* m.loading
    err,           \* m.err
    forge,         \* m.forge
    repoRoot,      \* m.repoRoot
    state,         \* m.state
    inputErr,      \* m.inputErr
    statusText,    \* m.statusText
    statusLevel,   \* m.statusLevel
    cursor,        \* m.list.Index()
    nameInput,     \* m.nameInput.Value()
    commitType,    \* m.commitType
    createPRTitle, \* m.createPRTitle.Value()
    createPRBase,  \* m.createPRBase.Value()
    createPRDraft, \* m.createPRDraft
    createPRField, \* m.createPRField
    \* --- background work
    cycles,        \* enrichment cycles in flight: id -> its local state
    nextCycle,     \* id of the next cycle to dispatch
    tasks,         \* the other commands in flight
    timers,        \* clearStatusCmd ticks in flight
    \* --- history
    last,          \* the last message Update handled, the state it arrived
                   \* in, the commands Update returned, the keys pressed so far
    \* --- the outside world
    worktrees,     \* what git worktree list returns, in order
    tmuxw,         \* slug -> TmuxStates
    forgew         \* branch -> ForgeStates

inputVars == <<nameInput, commitType, createPRTitle, createPRBase, createPRDraft, createPRField>>
uiVars == <<state, inputErr, statusText, statusLevel, cursor, inputVars>>
modelVars == <<sessions, items, loading, err, forge, repoRoot, uiVars>>
worldVars == <<worktrees, tmuxw, forgew>>
taskVars == <<tasks, timers>>

vars == <<modelVars, cycles, nextCycle, taskVars, last, worldVars>>

\* ------------------------------------------------------------- tmux probes

\* Whether git finds a repository from the working directory.
InRepository == repoRoot # NoRoot

\* git.HasUpstream: whether the branch has an upstream.
HasUpstream(branch) == forgew[branch] # NoUpstream

\* git.Push: the remote after the push; a push that succeeds gives the
\* branch its upstream.
Push(branch, ok) ==
    IF ok /\ ~HasUpstream(branch) THEN [forgew EXCEPT ![branch] = ForgeEmpty] ELSE forgew

\* tmux.SessionExists: Run() == nil.
SessionExists(slug) == tmuxw[slug] \notin {NoTmux, TmuxErr}

\* bytes.Equal of the two snapshots.
NeedsInputMutNotEqual(a, b) == a # b
NeedsInput(a, b) == a = b

\* ------------------------------------------------------------ forge client

\* normaliseState
normaliseState(s) == IF s = "opened" THEN "open" ELSE s

\* ghState
ghState(s) ==
    CASE s = "OPEN" -> "open"
      [] s = "MERGED" -> "merged"
      [] s = "CLOSED" -> "closed"
      [] OTHER -> s

\* ghCIStatus
ghCIStatus(s) ==
    CASE s = "SUCCESS" -> "success"
      [] s \in {"FAILURE", "ERROR"} -> "failed"
      [] s \in {"PENDING", "EXPECTED", "STALE"} -> "pending"
      [] s = "" -> ""
      [] OTHER -> "pending"

\* "prefer open; fall back to most recent": the index of the first
\* candidate whose raw state is open, else 1, else 0 (found == nil).
FoundMutFirst(list, open) == IF Len(list) > 0 THEN 1 ELSE 0
Found(list, open) ==
    LET opens == {i \in DOMAIN list : list[i].State = open}
    IN IF opens # {} THEN CHOOSE i \in opens : \A j \in opens : i <= j
       ELSE IF Len(list) > 0 THEN 1 ELSE 0

\* (*gitLab).FetchPR on the answer of glab mr list: the pair it returns.
gitLabFetchPRMutErr(a) ==
    IF a.cli # "json" THEN [pr |-> NoPR, err |-> "glab mr list"]
    ELSE [pr |-> NoPR, err |-> NoErr]
gitLabFetchPR(a) ==
    IF a.cli # "json" THEN [pr |-> NoPR, err |-> NoErr]
    ELSE LET found == Found(a.list, "opened")
         IN IF found = 0 THEN [pr |-> NoPR, err |-> NoErr]
            ELSE LET mr == a.list[found]
                 IN [pr |-> [Number |-> mr.IID,
                             State |-> normaliseState(mr.State),
                             Draft |-> mr.Draft,
                             PipelineStatus |->
                                 IF mr.Pipeline # Nil THEN mr.Pipeline.Status ELSE "",
                             HasUnresolved |->
                                 IF mr.BlockingDiscussionsResolved # Nil
                                 THEN ~mr.BlockingDiscussionsResolved.v ELSE FALSE,
                             Forge |-> "gitlab"],
                     err |-> NoErr]

\* (*gitHub).FetchPR on the answer of gh pr list.
gitHubFetchPR(a) ==
    IF a.cli # "json" THEN [pr |-> NoPR, err |-> NoErr]
    ELSE LET found == Found(a.list, "OPEN")
         IN IF found = 0 THEN [pr |-> NoPR, err |-> NoErr]
            ELSE LET p == a.list[found]
                 IN [pr |-> [Number |-> p.Number,
                             State |-> ghState(p.State),
                             Draft |-> p.IsDraft,
                             PipelineStatus |-> ghCIStatus(p.StatusCheckRollup),
                             HasUnresolved |->
                                 p.ReviewDecision \in {"CHANGES_REQUESTED", "REVIEW_REQUIRED"},
                             Forge |-> "github"],
                     err |-> NoErr]

\* f.FetchPR of the detected backend.
BackendFetchPR(a) ==
    IF forge = "github" THEN gitHubFetchPR(a) ELSE gitLabFetchPR(a)

\* Forge.FetchPR as the pipeline calls it (pr, _ := f.FetchPR(branch)).
\* forgew holds either the CLI's answer or, where the raw form does not
\* matter, what it amounts to: a failure, no candidate, or the review.
FetchPR(branch) ==
    IF forgew[branch] \in {ForgeErr, ForgeEmpty, NoUpstream} THEN NoPR
    ELSE IF "cli" \in DOMAIN forgew[branch] THEN BackendFetchPR(forgew[branch]).pr
    ELSE forgew[branch]

\* ------------------------------------------------------ enrichment pipeline

\* A model.Session as parseBlock builds it, before enrichment. cyc (the
\* cycle that built it) and snaps (the snapshots the idle probe took, <<>>
\* if it was not queried) are history fields, not fields of the code.
NewSessionMutNeedsInput(slug, c) ==
    [Slug |-> slug, TmuxRunning |-> FALSE, NeedsInput |-> TRUE, PR |-> NoPR,
     cyc |-> c, snaps |-> <<>>]

NewSession(slug, c) ==
    [Slug |-> slug, TmuxRunning |-> FALSE, NeedsInput |-> FALSE, PR |-> NoPR,
     cyc |-> c, snaps |-> <<>>]

\* Dispatching m.fetchSessionsCmd: the command starts in its own goroutine.
StartCycleMutSkip == UNCHANGED <<cycles, nextCycle>>
StartCycle ==
    /\ nextCycle <= MaxCycles
    /\ cycles' = cycles @@ (nextCycle :> [phase |-> "list", err |-> FALSE,
                                          list |-> <<>>, pc |-> <<>>])
    /\ nextCycle' = nextCycle + 1

\* git.ListWorktrees, then wg.Add(1) and go func(i) for every session.
\* On an error the command returns sessionsLoadedMsg{err} at once.
ListWorktrees(c) ==
    /\ c \in DOMAIN cycles
    /\ cycles[c].phase = "list"
    /\ \E ok \in BOOLEAN :
         IF ok
         THEN cycles' = [cycles EXCEPT ![c] =
                 [phase |-> "run", err |-> FALSE,
                  list |-> [i \in DOMAIN worktrees |-> NewSession(worktrees[i], c)],
                  pc |-> [i \in DOMAIN worktrees |-> "exists"]]]
         ELSE cycles' = [cycles EXCEPT ![c].phase = "msg", ![c].err = TRUE]
    /\ UNCHANGED <<modelVars, nextCycle, taskVars, last, worldVars>>

\* The goroutine's next step after SessionExists returned running.
AfterExistsMutAlways(running) == "idle"
AfterExists(running) ==
    IF running THEN "idle" ELSE IF forge # NoForge THEN "forge" ELSE "done"

\* sessions[i].TmuxRunning = tmux.SessionExists(sessions[i].Slug)
GoExists(c, i) ==
    /\ c \in DOMAIN cycles
    /\ cycles[c].phase = "run"
    /\ i \in DOMAIN cycles[c].pc
    /\ cycles[c].pc[i] = "exists"
    /\ LET running == SessionExists(cycles[c].list[i].Slug)
       IN cycles' = [cycles EXCEPT ![c].list[i].TmuxRunning = running,
                                   ![c].pc[i] = AfterExists(running)]
    /\ UNCHANGED <<modelVars, nextCycle, taskVars, last, worldVars>>

\* What capture-pane returns, twice: the pane's contents, or nothing at
\* all when the command fails (Output's error is dropped).
Capture(slug) ==
    IF tmuxw[slug] \in {NoTmux, TmuxErr} THEN <<0, 0>> ELSE tmuxw[slug]

\* sessions[i].NeedsInput = tmux.NeedsInput(sessions[i].Slug)
GoIdle(c, i) ==
    /\ c \in DOMAIN cycles
    /\ cycles[c].phase = "run"
    /\ i \in DOMAIN cycles[c].pc
    /\ cycles[c].pc[i] = "idle"
    /\ LET snap == Capture(cycles[c].list[i].Slug)
       IN cycles' = [cycles EXCEPT
              ![c].list[i].NeedsInput = NeedsInput(snap[1], snap[2]),
              ![c].list[i].snaps = snap,
              ![c].pc[i] = IF forge # NoForge THEN "forge" ELSE "done"]
    /\ UNCHANGED <<modelVars, nextCycle, taskVars, last, worldVars>>

\* The attention flag a review gives: it replaces what idle detection set.
ReviewFlagMutKeep(old, pr) == old
ReviewFlagMutOr(old, pr) == old \/ pr.PipelineStatus = "failed" \/ pr.HasUnresolved
ReviewFlag(old, pr) == pr.PipelineStatus = "failed" \/ pr.HasUnresolved

\* pr, _ := f.FetchPR(branch); sessions[i].PR = pr; if pr != nil { ... }
GoForgeMutAbort(c, i) ==
    /\ c \in DOMAIN cycles
    /\ cycles[c].phase = "run"
    /\ i \in DOMAIN cycles[c].pc
    /\ cycles[c].pc[i] = "forge"
    /\ LET s == cycles[c].list[i]
       IN IF forgew[s.Slug] = ForgeErr
          THEN cycles' = [cycles EXCEPT ![c].phase = "msg", ![c].err = TRUE]
          ELSE LET pr == FetchPR(s.Slug)
               IN cycles' = [cycles EXCEPT
                      ![c].list[i].PR = pr,
                      ![c].list[i].NeedsInput =
                          IF pr # NoPR THEN ReviewFlag(s.NeedsInput, pr) ELSE s.NeedsInput,
                      ![c].pc[i] = "done"]
    /\ UNCHANGED <<modelVars, nextCycle, taskVars, last, worldVars>>

GoForge(c, i) ==
    /\ c \in DOMAIN cycles
    /\ cycles[c].phase = "run"
    /\ i \in DOMAIN cycles[c].pc
    /\ cycles[c].pc[i] = "forge"
    /\ LET s == cycles[c].list[i]
           pr == FetchPR(s.Slug)
       IN cycles' = [cycles EXCEPT
              ![c].list[i].PR = pr,
              ![c].list[i].NeedsInput =
                  IF pr # NoPR THEN ReviewFlag(s.NeedsInput, pr) ELSE s.NeedsInput,
              ![c].pc[i] = "done"]
    /\ UNCHANGED <<modelVars, nextCycle, taskVars, last, worldVars>>

\* wg.Wait() returns once every goroutine called wg.Done().
AllDoneMutAny(pcs) == \E i \in DOMAIN pcs : pcs[i] = "done"
AllDone(pcs) == \A i \in DOMAIN pcs : pcs[i] = "done"

\* wg.Wait(); return sessionsLoadedMsg{sessions: sessions, err: nil}
Join(c) ==
    /\ c \in DOMAIN cycles
    /\ cycles[c].phase = "run"
    /\ AllDone(cycles[c].pc)
    /\ cycles' = [cycles EXCEPT ![c].phase = "msg"]
    /\ UNCHANGED <<modelVars, nextCycle, taskVars, last, worldVars>>

\* The cycles whose sessionsLoadedMsg is in the event loop's channel.
Delivered == {c \in DOMAIN cycles : cycles[c].phase = "msg"}

Without(f, c) == [x \in DOMAIN f \ {c} |-> f[x]]

\* m.sessions = msg.sessions
PublishMutMerge(old, new) ==
    [i \in DOMAIN new |-> IF i \in DOMAIN old /\ i > 1 THEN old[i] ELSE new[i]]
Publish(old, new) == new

\* What Update records of the message it handled: the message, whether it
\* carried success, the state it arrived in, the commands returned.
Event(ev, ok, cmds) ==
    [ev |-> ev, ok |-> ok, from |-> state, cmds |-> cmds, keys |-> last.keys]

\* The same for a key press, which is counted.
KeyPressed(cmds) ==
    /\ last.keys < MaxKeys
    /\ last' = [ev |-> "key", ok |-> TRUE, from |-> state, cmds |-> cmds,
                keys |-> last.keys + 1]

\* tea.ExecProcess blocks the event loop until the attached process returns.
Attached == \E k \in DOMAIN tasks : tasks[k].kind = "attach"

\* buildItems: one sessionItem for every session (the spinner character
\* it also holds is not modelled).
buildItems(ss) == [i \in DOMAIN ss |-> [s |-> ss[i]]]

\* case sessionsLoadedMsg
HandleSessionsLoaded(c) ==
    /\ ~Attached
    /\ c \in Delivered
    /\ loading' = FALSE
    /\ IF cycles[c].err
       THEN /\ err' = "list error"
            /\ UNCHANGED <<sessions, items>>
       ELSE /\ err' = NoErr
            /\ sessions' = Publish(sessions, cycles[c].list)
            /\ items' = buildItems(sessions')
    /\ cycles' = Without(cycles, c)
    /\ last' = Event("sessionsLoaded", ~cycles[c].err, {})
    /\ UNCHANGED <<forge, repoRoot, uiVars, nextCycle, taskVars, worldVars>>

\* updateNormal, key "r"
KeyRefresh ==
    /\ ~Attached
    /\ state = "Normal"
    /\ loading' = TRUE
    /\ StartCycle
    /\ KeyPressed({"fetch"})
    /\ UNCHANGED <<sessions, items, err, forge, repoRoot, uiVars, taskVars, worldVars>>

\* ---------------------------------------------------- background commands

\* fetchSessionsCmd run as one step: what one goroutine leaves in its
\* session, the probes called in the order of the code.
EnrichSession(s) ==
    LET running == SessionExists(s.Slug)
        snap == IF running THEN Capture(s.Slug) ELSE <<>>
        idle == IF running THEN NeedsInput(snap[1], snap[2]) ELSE s.NeedsInput
        pr == IF forge # NoForge THEN FetchPR(s.Slug) ELSE NoPR
    IN [s EXCEPT !.TmuxRunning = running,
                 !.snaps = snap,
                 !.PR = pr,
                 !.NeedsInput = IF pr # NoPR THEN ReviewFlag(idle, pr) ELSE idle]

\* fetchSessionsCmd from its start to the return of its message.
RunCycle(c) ==
    /\ c \in DOMAIN cycles
    /\ cycles[c].phase = "list"
    /\ \E ok \in BOOLEAN :
         /\ ok => InRepository
         /\ IF ok
            THEN cycles' = [cycles EXCEPT ![c] =
                    [phase |-> "msg", err |-> FALSE,
                     list |-> [i \in DOMAIN worktrees |->
                                  EnrichSession(NewSession(worktrees[i], c))],
                     pc |-> [i \in DOMAIN worktrees |-> "done"]]]
            ELSE cycles' = [cycles EXCEPT ![c].phase = "msg", ![c].err = TRUE]
    /\ UNCHANGED <<modelVars, nextCycle, taskVars, last, worldVars>>

Range(f) == {f[x] : x \in DOMAIN f}
RemoveAtMutKeep(q, k) == q
RemoveAt(q, k) == SubSeq(q, 1, k - 1) \o SubSeq(q, k + 1, Len(q))

\* A command handed to the runtime: it runs in its own goroutine.
AddTask(t) == tasks' = Append(tasks, t)

\* clearStatusCmd: a 3 s tick that ends in clearStatusMsg.
StartTimer == timers' = timers + 1

\* msg.err.Error(), whatever the command printed.
TaskErr == "task error"

\* ------------------------------------------------- Update: task completions

fixedVars == <<forge, repoRoot>>
statusVars == <<statusText, statusLevel>>
prInputs == <<createPRTitle, createPRBase, createPRDraft, createPRField>>
cycleVars == <<cycles, nextCycle>>

\* createWorktreeCmd returns; case worktreeCreatedMsg.
\* git worktree add fails when the branch already has a worktree.
WorktreeCreated(k, ok) ==
    /\ ~Attached
    /\ k \in DOMAIN tasks
    /\ tasks[k].kind = "create"
    /\ ok => tasks[k].slug \notin Range(worktrees)
    /\ IF ok
       THEN /\ worktrees' = Append(worktrees, tasks[k].slug)
            /\ state' = "Normal"
            /\ inputErr' = ""
            /\ nameInput' = ""
            /\ tasks' = [tasks EXCEPT ![k] = [kind |-> "ensure", slug |-> tasks[k].slug]]
            /\ last' = Event("worktreeCreated", TRUE, {"ensureAndAttach"})
       ELSE /\ inputErr' = TaskErr
            /\ tasks' = RemoveAt(tasks, k)
            /\ last' = Event("worktreeCreated", FALSE, {})
            /\ UNCHANGED <<worktrees, state, nameInput>>
    /\ UNCHANGED <<sessions, items, loading, err, fixedVars, statusVars, cursor, commitType,
                   prInputs, cycleVars, timers, tmuxw, forgew>>

\* The pane of a session tmux has just created.
NewPanes == {<<0, 1>>}

\* tmux new-session -d -s slug: tmux refuses a name it already has
\* ("duplicate session") and fails when its server cannot be asked;
\* otherwise the session is created, or configPath/tmux fails.
NewSessionCmd(slug) ==
    IF tmuxw[slug] = NoTmux
    THEN {[ok |-> TRUE, tmux |-> pane] : pane \in NewPanes}
         \cup {[ok |-> FALSE, tmux |-> NoTmux]}
    ELSE {[ok |-> FALSE, tmux |-> tmuxw[slug]]}

EnsureSessionMutAlwaysCreate(slug) == NewSessionCmd(slug)

\* tmux.EnsureSession: nil if the session exists, else tmux new-session.
\* The outcomes are pairs of the returned error (ok = nil) and the tmux
\* state of the slug afterwards.
EnsureSession(slug) ==
    IF SessionExists(slug)
    THEN {[ok |-> TRUE, tmux |-> tmuxw[slug]]}
    ELSE NewSessionCmd(slug)

\* ensureAndAttachCmd's goroutine has asked tmux has-session and not yet
\* acted on the answer: the task remembers it.
SessionExistsAsked(k) ==
    /\ k \in DOMAIN tasks
    /\ tasks[k].kind = "ensure"
    /\ "exists" \notin DOMAIN tasks[k]
    /\ tasks' = [tasks EXCEPT ![k] = [kind |-> "ensure", slug |-> tasks[k].slug,
                                      exists |-> SessionExists(tasks[k].slug)]]
    /\ UNCHANGED <<modelVars, cycleVars, timers, last, worldVars>>

\* ensureAndAttachCmd: tmux.EnsureSession as a whole, or the rest of it
\* when has-session was answered earlier.
ensureAndAttachCmd(t) ==
    IF "exists" \notin DOMAIN t THEN EnsureSession(t.slug)
    ELSE IF t.exists THEN {[ok |-> TRUE, tmux |-> tmuxw[t.slug]]}
    ELSE NewSessionCmd(t.slug)

\* ensureAndAttachCmd returns; case sessionEnsuredMsg.  The attach task
\* remembers whether this call had to create the session.
SessionEnsured(k, ok) ==
    /\ ~Attached
    /\ k \in DOMAIN tasks
    /\ tasks[k].kind = "ensure"
    /\ \E r \in ensureAndAttachCmd(tasks[k]) :
          /\ r.ok = ok
          /\ tmuxw' = [tmuxw EXCEPT ![tasks[k].slug] = r.tmux]
    /\ IF ok
       THEN /\ tasks' = [tasks EXCEPT ![k] =
                          [kind |-> "attach", slug |-> tasks[k].slug,
                           created |-> ~SessionExists(tasks[k].slug)]]
            /\ last' = Event("sessionEnsured", TRUE, {"attach"})
            /\ UNCHANGED err
       ELSE /\ err' = TaskErr
            /\ tasks' = RemoveAt(tasks, k)
            /\ last' = Event("sessionEnsured", FALSE, {})
    /\ UNCHANGED <<sessions, items, loading, fixedVars, uiVars, cycleVars, timers, worktrees, forgew>>

\* The attached tmux client returns (detach, or claude exited and the
\* session is gone); case claudeExitedMsg, which does not read msg.err.
ClaudeExited(k) ==
    /\ k \in DOMAIN tasks
    /\ tasks[k].kind = "attach"
    /\ \E gone \in BOOLEAN :
         tmuxw' = IF gone THEN [tmuxw EXCEPT ![tasks[k].slug] = NoTmux] ELSE tmuxw
    /\ loading' = TRUE
    /\ StartCycle
    /\ tasks' = RemoveAt(tasks, k)
    /\ last' = Event("claudeExited", TRUE, {"fetch"})
    /\ UNCHANGED <<sessions, items, err, fixedVars, uiVars, timers, worktrees, forgew>>

\* commitCmd returns; case commitResultMsg.
CommitResult(k, ok) ==
    /\ ~Attached
    /\ k \in DOMAIN tasks
    /\ tasks[k].kind = "commit"
    /\ tasks' = RemoveAt(tasks, k)
    /\ IF ok
       THEN /\ state' = "Normal"
            /\ inputErr' = ""
            /\ nameInput' = ""
            /\ loading' = TRUE
            /\ statusText' = "committed"
            /\ statusLevel' = "info"
            /\ StartCycle
            /\ StartTimer
            /\ last' = Event("commitResult", TRUE, {"fetch", "clearStatus"})
       ELSE /\ inputErr' = TaskErr
            /\ last' = Event("commitResult", FALSE, {})
            /\ UNCHANGED <<state, nameInput, loading, statusVars, cycleVars, timers>>
    /\ UNCHANGED <<sessions, items, err, fixedVars, cursor, commitType, prInputs, worldVars>>

\* deleteWorktreeCmd returns; case worktreeRemovedMsg.
\* git worktree remove fails when the path is no worktree, and when it is
\* the main working tree.
WorktreeRemoved(k, ok) ==
    /\ ~Attached
    /\ k \in DOMAIN tasks
    /\ tasks[k].kind = "delete"
    /\ ok => tasks[k].slug \in Range(worktrees) \ {Primary}
    /\ tasks' = RemoveAt(tasks, k)
    /\ state' = "Normal"
    /\ IF ok
       THEN /\ worktrees' = SelectSeq(worktrees, LAMBDA w : w # tasks[k].slug)
            /\ inputErr' = ""
            /\ loading' = TRUE
            /\ StartCycle
            /\ last' = Event("worktreeRemoved", TRUE, {"fetch"})
       ELSE /\ inputErr' = TaskErr
            /\ last' = Event("worktreeRemoved", FALSE, {})
            /\ UNCHANGED <<worktrees, loading, cycleVars>>
    /\ UNCHANGED <<sessions, items, err, fixedVars, statusVars, cursor, inputVars, timers,
                   tmuxw, forgew>>

\* pushCmd returns; case pushResultMsg.
PushResult(k, ok) ==
    /\ ~Attached
    /\ k \in DOMAIN tasks
    /\ tasks[k].kind = "push"
    /\ tasks' = RemoveAt(tasks, k)
    /\ forgew' = Push(tasks[k].slug, ok)
    /\ IF ok
       THEN statusText' = "pushed" /\ statusLevel' = "info"
       ELSE statusText' = "push failed" /\ statusLevel' = "error"
    /\ loading' = TRUE
    /\ StartCycle
    /\ StartTimer
    /\ last' = Event("pushResult", ok, {"fetch", "clearStatus"})
    /\ UNCHANGED <<sessions, items, err, fixedVars, state, inputErr, cursor, inputVars,
                   worktrees, tmuxw>>

\* The reviews the forge can hold once the user creates and updates them:
\* mr/pr update --draft, --ready (gh pr ready [--undo]) needs one to exist.
PRDrafts == [PipelineStatus : {"success", "failed"}, HasUnresolved : BOOLEAN, Draft : BOOLEAN]

\* The review the forge holds once mr/pr create succeeded (--draft if asked).
CreatedPR(draft) == [PipelineStatus |-> "success", HasUnresolved |-> FALSE, Draft |-> draft]

\* createPRCmd returns; case prCreatedMsg.
\* createPRCmd runs in its own goroutine; calls is the history of what it
\* has called so far, each with its outcome. The task is finished once
\* the push failed or Forge.CreatePR returned.
Finished(t) ==
    /\ t.calls # <<>>
    /\ \/ t.calls[Len(t.calls)] = <<"Push", FALSE>>
       \/ t.calls[Len(t.calls)][1] = "CreatePR"

\* The err of the prCreatedMsg a finished createPRCmd returns, as ok.
Succeeded(t) == t.calls[Len(t.calls)] = <<"CreatePR", TRUE>>

\* createPRCmd, first half: the branch has no upstream, so it is pushed;
\* a failed push ends the command.
createPRCmdPush(k, ok) ==
    /\ k \in DOMAIN tasks
    /\ tasks[k].kind = "createPR"
    /\ tasks[k].calls = <<>>
    /\ ~HasUpstream(tasks[k].slug)
    /\ tasks' = [tasks EXCEPT ![k].calls = <<<<"HasUpstream", FALSE>>, <<"Push", ok>>>>]
    /\ forgew' = Push(tasks[k].slug, ok)
    /\ UNCHANGED <<modelVars, cycles, nextCycle, timers, last, worktrees, tmuxw>>

createPRCmdCreateMutAnyPush(k, ok) ==
    /\ k \in DOMAIN tasks
    /\ tasks[k].kind = "createPR"
    /\ \/ /\ tasks[k].calls = <<>>
          /\ HasUpstream(tasks[k].slug)
          /\ tasks' = [tasks EXCEPT ![k].calls = <<<<"HasUpstream", TRUE>>, <<"CreatePR", ok>>>>]
       \/ /\ tasks[k].calls # <<>>
          /\ tasks[k].calls[Len(tasks[k].calls)][1] = "Push"
          /\ tasks' = [tasks EXCEPT ![k].calls = Append(@, <<"CreatePR", ok>>)]
    /\ forgew' = IF ok THEN [forgew EXCEPT ![tasks[k].slug] = CreatedPR(tasks[k].draft)]
                 ELSE forgew
    /\ UNCHANGED <<modelVars, cycles, nextCycle, timers, last, worktrees, tmuxw>>

\* createPRCmd, second half: Forge.CreatePR, reached with an upstream or
\* after a push that succeeded.
createPRCmdCreate(k, ok) ==
    /\ k \in DOMAIN tasks
    /\ tasks[k].kind = "createPR"
    /\ \/ /\ tasks[k].calls = <<>>
          /\ HasUpstream(tasks[k].slug)
          /\ tasks' = [tasks EXCEPT ![k].calls = <<<<"HasUpstream", TRUE>>, <<"CreatePR", ok>>>>]
       \/ /\ tasks[k].calls # <<>>
          /\ tasks[k].calls[Len(tasks[k].calls)] = <<"Push", TRUE>>
          /\ tasks' = [tasks EXCEPT ![k].calls = Append(@, <<"CreatePR", ok>>)]
    /\ forgew' = IF ok THEN [forgew EXCEPT ![tasks[k].slug] = CreatedPR(tasks[k].draft)]
                 ELSE forgew
    /\ UNCHANGED <<modelVars, cycles, nextCycle, timers, last, worktrees, tmuxw>>

PRCreated(k, ok) ==
    /\ ~Attached
    /\ k \in DOMAIN tasks
    /\ tasks[k].kind = "createPR"
    /\ Finished(tasks[k])
    /\ ok = Succeeded(tasks[k])
    /\ tasks' = RemoveAt(tasks, k)
    /\ IF ok
       THEN /\ state' = "Normal"
            /\ inputErr' = ""
            /\ statusText' = "PR created"
            /\ statusLevel' = "info"
            /\ loading' = TRUE
            /\ StartCycle
            /\ StartTimer
            /\ last' = Event("prCreated", TRUE, {"fetch", "clearStatus"})
       ELSE /\ inputErr' = TaskErr
            /\ last' = Event("prCreated", FALSE, {})
            /\ UNCHANGED <<state, statusVars, loading, cycleVars, timers>>
    /\ UNCHANGED <<sessions, items, err, fixedVars, cursor, inputVars, worldVars>>

\* updatePRCmd returns; case prUpdatedMsg.
PRUpdated(k, ok) ==
    /\ ~Attached
    /\ k \in DOMAIN tasks
    /\ tasks[k].kind = "updatePR"
    /\ ok => forgew[tasks[k].slug] \in PRDrafts
    /\ tasks' = RemoveAt(tasks, k)
    /\ state' = "Normal"
    /\ StartTimer
    /\ IF ok
       THEN /\ forgew' = [forgew EXCEPT ![tasks[k].slug].Draft = tasks[k].draft]
            /\ statusText' = "PR updated"
            /\ statusLevel' = "info"
            /\ loading' = TRUE
            /\ StartCycle
            /\ last' = Event("prUpdated", TRUE, {"fetch", "clearStatus"})
       ELSE /\ statusText' = TaskErr
            /\ statusLevel' = "error"
            /\ last' = Event("prUpdated", FALSE, {"clearStatus"})
            /\ UNCHANGED <<loading, cycleVars, forgew>>
    /\ UNCHANGED <<sessions, items, err, fixedVars, inputErr, cursor, inputVars, worktrees, tmuxw>>

\* case tickMsg: the spinner advances (not modelled), the list items are
\* rebuilt from m.sessions, and the next tick is scheduled.
TickMutFetch ==
    /\ ~Attached
    /\ items' = IF ~loading /\ err = NoErr THEN buildItems(sessions) ELSE items
    /\ StartCycle
    /\ UNCHANGED <<sessions, loading, err, fixedVars, uiVars, taskVars, last, worldVars>>
TickMutWrite ==
    /\ ~Attached
    /\ sessions' = <<>>
    /\ items' = IF ~loading /\ err = NoErr THEN buildItems(sessions) ELSE items
    /\ UNCHANGED <<loading, err, fixedVars, uiVars, cycleVars, taskVars, last, worldVars>>
Tick ==
    /\ ~Attached
    /\ items' = IF ~loading /\ err = NoErr THEN buildItems(sessions) ELSE items
    /\ UNCHANGED <<sessions, loading, err, fixedVars, uiVars, cycleVars, taskVars, last,
                   worldVars>>

\* case tea.WindowSizeMsg: the width, the height and the size of the list,
\* none of which is state of this model.
WindowSize ==
    /\ ~Attached
    /\ UNCHANGED vars

\* The tick of clearStatusCmd fires; case clearStatusMsg.
ClearStatusMutAll ==
    /\ ~Attached
    /\ timers > 0
    /\ timers' = timers - 1
    /\ statusText' = ""
    /\ inputErr' = ""
    /\ last' = Event("clearStatus", TRUE, {})
    /\ UNCHANGED <<sessions, items, loading, err, fixedVars, state, statusLevel, cursor,
                   inputVars, cycleVars, tasks, worldVars>>
ClearStatus ==
    /\ ~Attached
    /\ timers > 0
    /\ timers' = timers - 1
    /\ statusText' = ""
    /\ last' = Event("clearStatus", TRUE, {})
    /\ UNCHANGED <<sessions, items, loading, err, fixedVars, state, inputErr, statusLevel, cursor,
                   inputVars, cycleVars, tasks, worldVars>>

\* ------------------------------------------------------ Update: key presses

\* What the text inputs can hold: nothing, blanks only, or a name.
NameInputs == {"", " ", "feat"}
TitleInputs == {"", " ", "feat"}
BaseInputs == {"", "main"}

\* strings.TrimSpace
TrimSpaceMutKeep(v) == v
TrimSpace(v) == IF v = " " THEN "" ELSE v

\* A space typed into a text input; trailing blanks after a name are not
\* told apart from the name, which is all TrimSpace leaves of them.
AddSpace(v) == IF v = "" THEN " " ELSE v

\* forge.DefaultBranch
DefaultBranch == "main"

\* slugToTitle, on branch names without "/" and "-".
slugToTitle(branch) == branch

\* var commitTypes
commitTypes ==
    << [key |-> "f", typ |-> "feat"],  [key |-> "x", typ |-> "fix"],
       [key |-> "r", typ |-> "refactor"], [key |-> "d", typ |-> "docs"],
       [key |-> "t", typ |-> "test"],  [key |-> "c", typ |-> "chore"],
       [key |-> "i", typ |-> "ci"],    [key |-> "p", typ |-> "perf"] >>

\* The keys the user presses in the commit-type menu.
TypeKeys == {"f", "z"}

\* selectedSession; NoSel is nil.
NoSel == [nil |-> TRUE]
selectedSession ==
    IF Len(sessions) = 0 \/ cursor < 0 \/ cursor >= Len(sessions)
    THEN NoSel
    ELSE sessions[cursor + 1]

\* A key that Update takes and that changes nothing.
Ignored ==
    /\ KeyPressed({})
    /\ UNCHANGED <<modelVars, cycleVars, taskVars, worldVars>>

\* updateNormal, any other key: m.list.Update moves the selection.
KeyMove(idx) ==
    /\ ~Attached
    /\ state = "Normal"
    /\ idx \in 0..(Len(sessions) - 1)
    /\ cursor' = idx
    /\ KeyPressed({})
    /\ UNCHANGED <<sessions, items, loading, err, fixedVars, state, inputErr, statusVars,
                   inputVars, cycleVars, taskVars, worldVars>>

\* updateNormal, key "n"
KeyNewSession ==
    /\ ~Attached
    /\ state = "Normal"
    /\ state' = "NewSession"
    /\ inputErr' = ""
    /\ nameInput' = ""
    /\ KeyPressed({"blink"})
    /\ UNCHANGED <<sessions, items, loading, err, fixedVars, statusVars, cursor, commitType,
                   prInputs, cycleVars, taskVars, worldVars>>

\* updateNormal, key "c"
KeyCommitMutSkipMenu ==
    /\ ~Attached
    /\ state = "Normal"
    /\ IF selectedSession # NoSel
       THEN /\ state' = "Commit"
            /\ commitType' = ""
            /\ inputErr' = ""
            /\ KeyPressed({})
            /\ UNCHANGED <<sessions, items, loading, err, fixedVars, statusVars, cursor, nameInput,
                           prInputs, cycleVars, taskVars, worldVars>>
       ELSE Ignored

KeyCommit ==
    /\ ~Attached
    /\ state = "Normal"
    /\ IF selectedSession # NoSel
       THEN /\ state' = "CommitType"
            /\ commitType' = ""
            /\ inputErr' = ""
            /\ KeyPressed({})
            /\ UNCHANGED <<sessions, items, loading, err, fixedVars, statusVars, cursor, nameInput,
                           prInputs, cycleVars, taskVars, worldVars>>
       ELSE Ignored

\* updateNormal, key "p"
KeyPush ==
    /\ ~Attached
    /\ state = "Normal"
    /\ IF selectedSession # NoSel
       THEN /\ AddTask([kind |-> "push", slug |-> selectedSession.Slug])
            /\ KeyPressed({"push"})
            /\ UNCHANGED <<modelVars, cycleVars, timers, worldVars>>
       ELSE Ignored

\* updateNormal, key "o": openURLCmd returns no message.
KeyOpen ==
    /\ ~Attached
    /\ state = "Normal"
    /\ KeyPressed(IF selectedSession # NoSel /\ selectedSession.PR # NoPR
                     THEN {"openURL"} ELSE {})
    /\ UNCHANGED <<modelVars, cycleVars, taskVars, worldVars>>

\* updateNormal, key "m", with enterCreatePR
KeyManageMutNoForgeCheck ==
    /\ ~Attached
    /\ state = "Normal"
    /\ IF selectedSession = NoSel
       THEN Ignored
       ELSE /\ inputErr' = ""
            /\ KeyPressed(IF selectedSession.PR = NoPR THEN {"blink"} ELSE {})
            /\ IF selectedSession.PR = NoPR
               THEN /\ state' = "CreatePR"
                    /\ createPRDraft' = FALSE
                    /\ createPRField' = "title"
                    /\ createPRTitle' = slugToTitle(selectedSession.Slug)
                    /\ createPRBase' = DefaultBranch
               ELSE /\ state' = "ManagePR"
                    /\ UNCHANGED prInputs
            /\ UNCHANGED <<sessions, items, loading, err, fixedVars, statusVars, cursor, nameInput,
                           commitType, cycleVars, taskVars, worldVars>>

KeyManageMutKeepDraft ==
    /\ ~Attached
    /\ state = "Normal"
    /\ IF selectedSession = NoSel \/ forge = NoForge
       THEN Ignored
       ELSE /\ inputErr' = ""
            /\ KeyPressed(IF selectedSession.PR = NoPR THEN {"blink"} ELSE {})
            /\ IF selectedSession.PR = NoPR
               THEN /\ state' = "CreatePR"
                    /\ createPRDraft' = createPRDraft
                    /\ createPRField' = "title"
                    /\ createPRTitle' = slugToTitle(selectedSession.Slug)
                    /\ createPRBase' = DefaultBranch
               ELSE /\ state' = "ManagePR"
                    /\ UNCHANGED prInputs
            /\ UNCHANGED <<sessions, items, loading, err, fixedVars, statusVars, cursor, nameInput,
                           commitType, cycleVars, taskVars, worldVars>>

KeyManage ==
    /\ ~Attached
    /\ state = "Normal"
    /\ IF selectedSession = NoSel \/ forge = NoForge
       THEN Ignored
       ELSE /\ inputErr' = ""
            /\ KeyPressed(IF selectedSession.PR = NoPR THEN {"blink"} ELSE {})
            /\ IF selectedSession.PR = NoPR
               THEN /\ state' = "CreatePR"
                    /\ createPRDraft' = FALSE
                    /\ createPRField' = "title"
                    /\ createPRTitle' = slugToTitle(selectedSession.Slug)
                    /\ createPRBase' = DefaultBranch
               ELSE /\ state' = "ManagePR"
                    /\ UNCHANGED prInputs
            /\ UNCHANGED <<sessions, items, loading, err, fixedVars, statusVars, cursor, nameInput,
                           commitType, cycleVars, taskVars, worldVars>>

\* updateNormal, key "d": s != nil && s.Path != m.repoRoot
CanDelete(s) == s # NoSel /\ s.Slug # repoRoot

\* updateNormal, key "d"
KeyDelete ==
    /\ ~Attached
    /\ state = "Normal"
    /\ IF CanDelete(selectedSession)
       THEN /\ state' = "DeleteConfirm"
            /\ inputErr' = ""
            /\ KeyPressed({})
            /\ UNCHANGED <<sessions, items, loading, err, fixedVars, statusVars, cursor, inputVars,
                           cycleVars, taskVars, worldVars>>
       ELSE Ignored

\* updateNormal, key "enter"
KeyAttach ==
    /\ ~Attached
    /\ state = "Normal"
    /\ IF selectedSession # NoSel
       THEN /\ AddTask([kind |-> "ensure", slug |-> selectedSession.Slug])
            /\ KeyPressed({"ensureAndAttach"})
            /\ UNCHANGED <<modelVars, cycleVars, timers, worldVars>>
       ELSE Ignored

\* updateNewSession, key "esc"
NewSessionEscMutStay ==
    /\ ~Attached
    /\ state = "NewSession"
    /\ inputErr' = ""
    /\ KeyPressed({})
    /\ UNCHANGED <<sessions, items, loading, err, fixedVars, state, statusVars, cursor, inputVars,
                   cycleVars, taskVars, worldVars>>
NewSessionEsc ==
    /\ ~Attached
    /\ state = "NewSession"
    /\ state' = "Normal"
    /\ inputErr' = ""
    /\ KeyPressed({})
    /\ UNCHANGED <<sessions, items, loading, err, fixedVars, statusVars, cursor, inputVars,
                   cycleVars, taskVars, worldVars>>

\* updateNewSession, key "enter"
NewSessionEnter ==
    /\ ~Attached
    /\ state = "NewSession"
    /\ LET branch == TrimSpace(nameInput)
       IN IF branch = ""
          THEN /\ inputErr' = "branch name cannot be empty"
               /\ KeyPressed({})
               /\ UNCHANGED tasks
          ELSE IF repoRoot = NoRoot
          THEN /\ inputErr' = "could not determine git repo root"
               /\ KeyPressed({})
               /\ UNCHANGED tasks
          ELSE /\ inputErr' = ""
               /\ AddTask([kind |-> "create", slug |-> branch])
               /\ KeyPressed({"createWorktree"})
    /\ UNCHANGED <<sessions, items, loading, err, fixedVars, state, statusVars, cursor, inputVars,
                   cycleVars, timers, worldVars>>

\* updateNewSession and updateCommit, any other key: m.nameInput.Update
TypeName(v) ==
    /\ ~Attached
    /\ state \in {"NewSession", "Commit"}
    /\ v \in NameInputs
    /\ nameInput' = v
    /\ KeyPressed({})
    /\ UNCHANGED <<sessions, items, loading, err, fixedVars, state, inputErr, statusVars, cursor,
                   commitType, prInputs, cycleVars, taskVars, worldVars>>

\* updateCommitType, key "esc"
CommitTypeEsc ==
    /\ ~Attached
    /\ state = "CommitType"
    /\ state' = "Normal"
    /\ inputErr' = ""
    /\ KeyPressed({})
    /\ UNCHANGED <<sessions, items, loading, err, fixedVars, statusVars, cursor, inputVars,
                   cycleVars, taskVars, worldVars>>

\* updateCommitType, any other key: the first entry of commitTypes with it
CommitTypeKey(key) ==
    /\ ~Attached
    /\ state = "CommitType"
    /\ key \in TypeKeys
    /\ IF \E n \in DOMAIN commitTypes : commitTypes[n].key = key
       THEN /\ commitType' =
                  commitTypes[CHOOSE n \in DOMAIN commitTypes : commitTypes[n].key = key].typ
            /\ state' = "Commit"
            /\ inputErr' = ""
            /\ nameInput' = ""
            /\ KeyPressed({"blink"})
            /\ UNCHANGED <<sessions, items, loading, err, fixedVars, statusVars, cursor, prInputs,
                           cycleVars, taskVars, worldVars>>
       ELSE Ignored

\* updateCommit, key "esc"
CommitEscMutToNormal ==
    /\ ~Attached
    /\ state = "Commit"
    /\ state' = "Normal"
    /\ inputErr' = ""
    /\ KeyPressed({})
    /\ UNCHANGED <<sessions, items, loading, err, fixedVars, statusVars, cursor, inputVars,
                   cycleVars, taskVars, worldVars>>

CommitEsc ==
    /\ ~Attached
    /\ state = "Commit"
    /\ state' = "CommitType"
    /\ inputErr' = ""
    /\ KeyPressed({})
    /\ UNCHANGED <<sessions, items, loading, err, fixedVars, statusVars, cursor, inputVars,
                   cycleVars, taskVars, worldVars>>

\* updateCommit, key "enter"
CommitEnter ==
    /\ ~Attached
    /\ state = "Commit"
    /\ IF TrimSpace(nameInput) = ""
       THEN /\ inputErr' = "description cannot be empty"
            /\ KeyPressed({})
            /\ UNCHANGED tasks
       ELSE IF selectedSession = NoSel
       THEN /\ inputErr' = "no session selected"
            /\ KeyPressed({})
            /\ UNCHANGED tasks
       ELSE /\ inputErr' = ""
            /\ AddTask([kind |-> "commit", slug |-> selectedSession.Slug,
                        message |-> <<commitType, TrimSpace(nameInput)>>])
            /\ KeyPressed({"commit"})
    /\ UNCHANGED <<sessions, items, loading, err, fixedVars, state, statusVars, cursor, inputVars,
                   cycleVars, timers, worldVars>>

\* updateDeleteConfirm, keys "esc", "n", "N"
DeleteEsc ==
    /\ ~Attached
    /\ state = "DeleteConfirm"
    /\ state' = "Normal"
    /\ inputErr' = ""
    /\ KeyPressed({})
    /\ UNCHANGED <<sessions, items, loading, err, fixedVars, statusVars, cursor, inputVars,
                   cycleVars, taskVars, worldVars>>

\* updateDeleteConfirm, keys "enter", "y", "Y"
DeleteEnter ==
    /\ ~Attached
    /\ state = "DeleteConfirm"
    /\ IF selectedSession = NoSel
       THEN /\ state' = "Normal"
            /\ KeyPressed({})
            /\ UNCHANGED tasks
       ELSE /\ AddTask([kind |-> "delete", slug |-> selectedSession.Slug])
            /\ KeyPressed({"deleteWorktree"})
            /\ UNCHANGED state
    /\ UNCHANGED <<sessions, items, loading, err, fixedVars, inputErr, statusVars, cursor, inputVars,
                   cycleVars, timers, worldVars>>

\* updateCreatePR, key "esc"
CreatePREsc ==
    /\ ~Attached
    /\ state = "CreatePR"
    /\ state' = "Normal"
    /\ inputErr' = ""
    /\ KeyPressed({})
    /\ UNCHANGED <<sessions, items, loading, err, fixedVars, statusVars, cursor, inputVars,
                   cycleVars, taskVars, worldVars>>

CreatePRTabMutSkipDraft ==
    /\ ~Attached
    /\ state = "CreatePR"
    /\ createPRField' = CASE createPRField = "title" -> "base"
                          [] createPRField = "base" -> "title"
                          [] createPRField = "draft" -> "title"
    /\ KeyPressed({"blink"})
    /\ UNCHANGED <<sessions, items, loading, err, fixedVars, state, inputErr, statusVars, cursor,
                   nameInput, commitType, createPRTitle, createPRBase, createPRDraft,
                   cycleVars, taskVars, worldVars>>

\* updateCreatePR, key "tab"
CreatePRTab ==
    /\ ~Attached
    /\ state = "CreatePR"
    /\ createPRField' = CASE createPRField = "title" -> "base"
                          [] createPRField = "base" -> "draft"
                          [] createPRField = "draft" -> "title"
    /\ KeyPressed({"blink"})
    /\ UNCHANGED <<sessions, items, loading, err, fixedVars, state, inputErr, statusVars, cursor,
                   nameInput, commitType, createPRTitle, createPRBase, createPRDraft,
                   cycleVars, taskVars, worldVars>>

\* updateCreatePR, key " ": toggles the draft flag on the draft field, and
\* is typed into the focused text input otherwise.
CreatePRSpace ==
    /\ ~Attached
    /\ state = "CreatePR"
    /\ createPRDraft' = IF createPRField = "draft" THEN ~createPRDraft ELSE createPRDraft
    /\ createPRTitle' = IF createPRField = "title" THEN AddSpace(createPRTitle)
                        ELSE createPRTitle
    /\ createPRBase' = IF createPRField = "base" THEN AddSpace(createPRBase)
                       ELSE createPRBase
    /\ KeyPressed({})
    /\ UNCHANGED <<sessions, items, loading, err, fixedVars, state, inputErr, statusVars, cursor,
                   nameInput, commitType, createPRField, cycleVars, taskVars, worldVars>>

\* updateCreatePR, any other key: the focused text input takes it
CreatePRType(v) ==
    /\ ~Attached
    /\ state = "CreatePR"
    /\ createPRField \in {"title", "base"}
    /\ IF createPRField = "title"
       THEN v \in TitleInputs /\ createPRTitle' = v /\ UNCHANGED createPRBase
       ELSE v \in BaseInputs /\ createPRBase' = v /\ UNCHANGED createPRTitle
    /\ KeyPressed({})
    /\ UNCHANGED <<sessions, items, loading, err, fixedVars, state, inputErr, statusVars, cursor,
                   nameInput, commitType, createPRDraft, createPRField, cycleVars, taskVars,
                   worldVars>>

\* updateCreatePR, key "enter"
CreatePREnter ==
    /\ ~Attached
    /\ state = "CreatePR"
    /\ IF TrimSpace(createPRTitle) = ""
       THEN /\ inputErr' = "title cannot be empty"
            /\ KeyPressed({})
            /\ UNCHANGED tasks
       ELSE IF TrimSpace(createPRBase) = ""
       THEN /\ inputErr' = "base branch cannot be empty"
            /\ KeyPressed({})
            /\ UNCHANGED tasks
       ELSE IF selectedSession = NoSel
       THEN /\ inputErr' = "no session selected"
            /\ KeyPressed({})
            /\ UNCHANGED tasks
       ELSE /\ inputErr' = ""
            /\ AddTask([kind |-> "createPR", slug |-> selectedSession.Slug,
                        draft |-> createPRDraft, calls |-> <<>>])
            /\ KeyPressed({"createPR"})
    /\ UNCHANGED <<sessions, items, loading, err, fixedVars, state, statusVars, cursor, inputVars,
                   cycleVars, timers, worldVars>>

\* updateManagePR, key "esc"
ManagePREsc ==
    /\ ~Attached
    /\ state = "ManagePR"
    /\ state' = "Normal"
    /\ KeyPressed({})
    /\ UNCHANGED <<sessions, items, loading, err, fixedVars, inputErr, statusVars, cursor, inputVars,
                   cycleVars, taskVars, worldVars>>

\* updateManagePR, keys "p" (draft = false) and "d" (draft = true)
ManagePRDraft(draft) ==
    /\ ~Attached
    /\ state = "ManagePR"
    /\ IF selectedSession = NoSel \/ selectedSession.PR = NoPR
       THEN /\ state' = "Normal"
            /\ KeyPressed({})
            /\ UNCHANGED tasks
       ELSE /\ AddTask([kind |-> "updatePR", slug |-> selectedSession.Slug, draft |-> draft])
            /\ KeyPressed({"updatePR"})
            /\ UNCHANGED state
    /\ UNCHANGED <<sessions, items, loading, err, fixedVars, inputErr, statusVars, cursor, inputVars,
                   cycleVars, timers, worldVars>>

\* updateManagePR, key "o"
ManagePROpen ==
    /\ ~Attached
    /\ state = "ManagePR"
    /\ state' = "Normal"
    /\ KeyPressed(IF selectedSession # NoSel /\ selectedSession.PR # NoPR
                     THEN {"openURL"} ELSE {})
    /\ UNCHANGED <<sessions, items, loading, err, fixedVars, inputErr, statusVars, cursor, inputVars,
                   cycleVars, taskVars, worldVars>>

\* -------------------------------------------------------------------- View

\* The dialogs whose render function writes m.inputErr; the commit-type
\* menu and the manage-review menu write no message.
ErrDialogs == {"NewSession", "Commit", "DeleteConfirm", "CreatePR"}

\* View, for a sized window: the messages on the screen. The loading
\* screen and the error screen replace everything; a dialog is placed
\* alone on the screen, without the base that holds the status line.
View ==
    IF loading THEN {"LOADING WORKTREES"}
    ELSE IF err # NoErr THEN {err}
    ELSE IF state = "Normal" THEN {statusText} \ {""}
    ELSE IF state \in ErrDialogs THEN {inputErr} \ {""}
    ELSE {}

\* ------------------------------------------------------------------- start

NoEvent == [ev |-> "init", ok |-> TRUE, from |-> "Normal", cmds |-> {"fetch"}, keys |-> 0]

\* New() and Init(): loading is set and the first cycle is dispatched.
InitState ==
    /\ sessions = <<>>
    /\ items = <<>>
    /\ loading = TRUE
    /\ err = NoErr
    /\ state = "Normal"
    /\ inputErr = ""
    /\ statusText = ""
    /\ statusLevel = "info"
    /\ cursor = 0
    /\ nameInput = ""
    /\ commitType = ""
    /\ createPRTitle = ""
    /\ createPRBase = "main"
    /\ createPRDraft = FALSE
    /\ createPRField = "title"
    /\ cycles = (1 :> [phase |-> "list", err |-> FALSE, list |-> <<>>, pc |-> <<>>])
    /\ nextCycle = 2
    /\ tasks = <<>>
    /\ timers = 0

InitFields == InitState /\ last = NoEvent

InitModel == InitFields /\ forge \in Forges

\* Every tmux and forge answer the probes can meet.
InitWorldFull ==
    /\ repoRoot = Primary
    /\ worktrees = <<"main", "feat">>
    /\ tmuxw \in [Slugs -> TmuxStates]
    /\ forgew \in [Slugs -> IF forge = NoForge THEN {ForgeEmpty} ELSE ForgeStates]

\* One cycle, from the start of the program to its publication, in every
\* world: the user presses no key.
InitProbe == InitModel /\ InitWorldFull

NextProbe ==
    \/ \E c \in 1..MaxCycles : ListWorktrees(c)
    \/ \E c \in 1..MaxCycles, i \in 1..Cardinality(Slugs) : GoExists(c, i)
    \/ \E c \in 1..MaxCycles, i \in 1..Cardinality(Slugs) : GoIdle(c, i)
    \/ \E c \in 1..MaxCycles, i \in 1..Cardinality(Slugs) : GoForge(c, i)
    \/ \E c \in 1..MaxCycles : Join(c)
    \/ \E c \in 1..MaxCycles : HandleSessionsLoaded(c)

SpecProbe == InitProbe /\ [][NextProbe]_vars

\* A few worlds: a session is absent or idle, a review absent or failed.
InitWorldSmall ==
    /\ repoRoot = Primary
    /\ worktrees = <<"main", "feat">>
    /\ tmuxw \in [Slugs -> {NoTmux, <<0, 0>>}]
    /\ forgew \in [Slugs -> IF forge = NoForge THEN {ForgeEmpty}
                            ELSE {ForgeEmpty, [PipelineStatus |-> "failed", HasUnresolved |-> FALSE, Draft |-> FALSE]}]

\* Overlapping cycles: the user presses the refresh key at any time.
InitEnrich == InitModel /\ InitWorldSmall

NextEnrich ==
    \/ KeyRefresh
    \/ NextProbe

SpecEnrich == InitEnrich /\ [][NextEnrich]_vars

\* The whole event loop: keys and completion messages in any order, each
\* background command run as one step.  Two repositories: one without a
\* forge remote and with its primary worktree only, and one on gitlab with
\* a second worktree whose review is open.  No tmux session is running.
InitWorld ==
    /\ repoRoot = Primary
    /\ tmuxw = [w \in Slugs |-> NoTmux]
    /\ IF forge = NoForge
       THEN /\ worktrees = <<"main">>
            /\ forgew = [w \in Slugs |-> ForgeEmpty]
       ELSE /\ worktrees = <<"main", "feat">>
            /\ forgew = [w \in Slugs |-> IF w = "feat" THEN CreatedPR(FALSE) ELSE ForgeEmpty]

Init == InitModel /\ InitWorld

Next ==
    \/ KeyRefresh
    \/ \E idx \in 0..Cardinality(Slugs) : KeyMove(idx)
    \/ KeyNewSession
    \/ KeyCommit
    \/ KeyPush
    \/ KeyOpen
    \/ KeyManage
    \/ KeyDelete
    \/ KeyAttach
    \/ NewSessionEsc
    \/ NewSessionEnter
    \/ \E v \in NameInputs : TypeName(v)
    \/ CommitTypeEsc
    \/ \E key \in TypeKeys : CommitTypeKey(key)
    \/ CommitEsc
    \/ CommitEnter
    \/ DeleteEsc
    \/ DeleteEnter
    \/ CreatePREsc
    \/ CreatePRTab
    \/ CreatePRSpace
    \/ \E v \in TitleInputs \cup BaseInputs : CreatePRType(v)
    \/ CreatePREnter
    \/ ManagePREsc
    \/ \E draft \in BOOLEAN : ManagePRDraft(draft)
    \/ ManagePROpen
    \/ \E c \in 1..MaxCycles : RunCycle(c)
    \/ \E c \in 1..MaxCycles : HandleSessionsLoaded(c)
    \/ \E k \in 1..MaxKeys, ok \in BOOLEAN : WorktreeCreated(k, ok)
    \/ \E k \in 1..MaxKeys, ok \in BOOLEAN : SessionEnsured(k, ok)
    \/ \E k \in 1..MaxKeys : ClaudeExited(k)
    \/ \E k \in 1..MaxKeys, ok \in BOOLEAN : CommitResult(k, ok)
    \/ \E k \in 1..MaxKeys, ok \in BOOLEAN : WorktreeRemoved(k, ok)
    \/ \E k \in 1..MaxKeys, ok \in BOOLEAN : PushResult(k, ok)
    \/ \E k \in 1..MaxKeys, ok \in BOOLEAN : createPRCmdCreate(k, ok)
    \/ \E k \in 1..MaxKeys, ok \in BOOLEAN : PRCreated(k, ok)
    \/ \E k \in 1..MaxKeys, ok \in BOOLEAN : PRUpdated(k, ok)
    \/ ClearStatus
    \/ Tick
    \/ WindowSize

Spec == Init /\ [][Next]_vars

\* The delete dialog alone. git rev-parse --show-toplevel names the working
\* tree deckard was started in, the main one or a linked one.
InitWorldDelete ==
    /\ repoRoot \in Slugs
    /\ worktrees = <<"main", "feat">>
    /\ tmuxw = [w \in Slugs |-> NoTmux]
    /\ forgew = [w \in Slugs |-> ForgeEmpty]

InitDelete == InitModel /\ InitWorldDelete

NextDelete ==
    \/ KeyRefresh
    \/ \E idx \in 0..Cardinality(Slugs) : KeyMove(idx)
    \/ KeyDelete
    \/ DeleteEsc
    \/ DeleteEnter
    \/ \E c \in 1..MaxCycles : RunCycle(c)
    \/ \E c \in 1..MaxCycles : HandleSessionsLoaded(c)
    \/ \E k \in 1..MaxKeys, ok \in BOOLEAN : WorktreeRemoved(k, ok)

SpecDelete == InitDelete /\ [][NextDelete]_vars

\* --------------------------------------------------------------------
\* deckard started outside any repository: New keeps repoRoot = "" and
\* forge.Detect finds no remote; there are no worktrees to list, so no
\* session is ever selected and only the keys below can act.
InitWorldNoRoot ==
    /\ repoRoot = NoRoot
    /\ forge = NoForge
    /\ worktrees = <<>>
    /\ tmuxw = [w \in Slugs |-> NoTmux]
    /\ forgew = [w \in Slugs |-> ForgeEmpty]

InitNoRoot == InitModel /\ InitWorldNoRoot

NextNoRoot ==
    \/ KeyRefresh
    \/ KeyNewSession
    \/ NewSessionEsc
    \/ NewSessionEnter
    \/ \E v \in NameInputs : TypeName(v)
    \/ \E c \in 1..MaxCycles : RunCycle(c)
    \/ \E c \in 1..MaxCycles : HandleSessionsLoaded(c)
    \/ Tick

SpecNoRoot == InitNoRoot /\ [][NextNoRoot]_vars

\* --------------------------------------------------------------------
\* The forge client on every answer its CLI can give: one worktree, one
\* start-up cycle, either backend.
InitForge ==
    /\ InitFields
    /\ forge \in Backends
    /\ repoRoot = Primary
    /\ worktrees = <<"main">>
    /\ tmuxw = [w \in Slugs |-> NoTmux]
    /\ \E a \in CliAnswers(forge) :
          forgew = [w \in Slugs |-> IF w = "main" THEN a ELSE ForgeEmpty]

NextForge ==
    \/ \E c \in 1..MaxCycles : RunCycle(c)
    \/ \E c \in 1..MaxCycles : HandleSessionsLoaded(c)

SpecForge == InitForge /\ [][NextForge]_vars

\* --------------------------------------------------------------------
\* git.BranchToSlug on branch names spelled out as sequences of characters:
\* an upper-case letter, a lower-case letter, the slash and the dash.
Chars == {"A", "a", "/", "-"}
Branches == UNION {[1..n -> Chars] : n \in 0..MaxLen}

\* strings.ToLower, on one character
ToLower(ch) == IF ch = "A" THEN "a" ELSE ch

\* The slug of a worktree whose block names no branch.
Unknown == <<"u", "n", "k", "n", "o", "w", "n">>

BranchToSlugMutNoLower(branch) ==
    IF branch = <<>> THEN Unknown
    ELSE [i \in DOMAIN branch |-> IF branch[i] = "/" THEN "-" ELSE branch[i]]

\* strings.ReplaceAll(strings.ToLower(branch), "/", "-"), "unknown" for "".
BranchToSlug(branch) ==
    IF branch = <<>> THEN Unknown
    ELSE [i \in DOMAIN branch |->
            IF ToLower(branch[i]) = "/" THEN "-" ELSE ToLower(branch[i])]

\* parseWorktrees: the sessions git.ListWorktrees builds from the blocks
\* of git worktree list, each with the slug of its branch (a block
\* without a branch line, as a bare repository's, has the branch "").
ParseWorktrees(c) ==
    /\ c \in DOMAIN cycles
    /\ cycles[c].phase = "list"
    /\ cycles' = [cycles EXCEPT ![c] =
          [phase |-> "parsed", err |-> FALSE,
           list |-> [i \in DOMAIN worktrees |->
                        [Branch |-> worktrees[i], Slug |-> BranchToSlug(worktrees[i]),
                         TmuxRunning |-> FALSE, NeedsInput |-> FALSE, PR |-> NoPR]],
           pc |-> <<>>]]
    /\ UNCHANGED <<modelVars, nextCycle, taskVars, last, worldVars>>

InitSlug ==
    /\ InitFields
    /\ forge = NoForge
    /\ repoRoot = Primary
    /\ worktrees \in {<<b>> : b \in Branches}
    /\ tmuxw = [w \in Slugs |-> NoTmux]
    /\ forgew = [w \in Slugs |-> ForgeEmpty]

NextSlug == \E c \in 1..MaxCycles : ParseWorktrees(c)

SpecSlug == InitSlug /\ [][NextSlug]_vars

\* ------------------------------------------------- the enrichment pipeline

\* The fields of a session the code holds (without the history fields).
Code(s) == [Slug |-> s.Slug, TmuxRunning |-> s.TmuxRunning,
            NeedsInput |-> s.NeedsInput, PR |-> s.PR]

\* Idle detection fired for s: the probe ran and its snapshots are equal.
IdleFired(s) == s.snaps # <<>> /\ s.snaps[1] = s.snaps[2]

ReviewFailed(s) == s.PR # NoPR /\ s.PR.PipelineStatus = "failed"
ReviewUnresolved(s) == s.PR # NoPR /\ s.PR.HasUnresolved

\* C1: every session of the published list was built by the same
\* enrichment cycle, also while other cycles are in flight or half done.
C1_PublishedFromOneCycle ==
    \A i, j \in DOMAIN sessions : sessions[i].cyc = sessions[j].cyc

\* A list of two sessions is published while another cycle has finished
\* one of its goroutines and not the other.
C1_Witness ==
    /\ Len(sessions) = 2
    /\ \E c \in DOMAIN cycles :
         /\ c # sessions[1].cyc
         /\ cycles[c].phase = "run"
         /\ \E i, j \in DOMAIN cycles[c].pc :
              cycles[c].pc[i] = "done" /\ cycles[c].pc[j] # "done"

\* C2: when a cycle's sessionsLoadedMsg exists, every goroutine of that
\* cycle has finished.
C2_MessageAfterJoin ==
    \A c \in Delivered : \A i \in DOMAIN cycles[c].pc : cycles[c].pc[i] = "done"

\* The message of a cycle over two sessions is waiting to be handled.
C2_Witness ==
    \E c \in Delivered : ~cycles[c].err /\ Len(cycles[c].pc) = 2

\* C3 (as claimed): at most one enrichment cycle is in flight.
C3_AtMostOneCycleInFlight == Cardinality(DOMAIN cycles) <= 1

\* C4 (as claimed): a published session needs input if idle detection
\* fired, or its review's pipeline failed, or its review has unresolved
\* threads.
C4_AnySignalSetsNeedsInput ==
    \A i \in DOMAIN sessions :
        (\/ (sessions[i].TmuxRunning /\ IdleFired(sessions[i]))
         \/ ReviewFailed(sessions[i])
         \/ ReviewUnresolved(sessions[i])) => sessions[i].NeedsInput

\* C5: a published session whose review's pipeline failed needs input.
C5_FailedPipelineNeedsInput ==
    \A i \in DOMAIN sessions : ReviewFailed(sessions[i]) => sessions[i].NeedsInput

\* Published: a failed pipeline on a session whose terminal is busy (idle
\* detection said no), and one on a session without a terminal.
C5_Witness ==
    /\ \E i \in DOMAIN sessions :
         /\ ReviewFailed(sessions[i])
         /\ sessions[i].TmuxRunning
         /\ sessions[i].snaps # <<>>
         /\ ~IdleFired(sessions[i])
    /\ \E i \in DOMAIN sessions :
         ReviewFailed(sessions[i]) /\ ~sessions[i].TmuxRunning

\* Every session record a cycle holds or the event loop has published.
AllSessionRecords ==
    {sessions[i] : i \in DOMAIN sessions}
        \cup UNION {{cycles[c].list[i] : i \in DOMAIN cycles[c].list} : c \in DOMAIN cycles}

\* C6: the idle probe was queried only for a session for which
\* SessionExists returned true in the same cycle.
C6_IdleProbeOnlyIfExists ==
    \A s \in AllSessionRecords : s.snaps # <<>> => s.TmuxRunning

\* Published: one session without a terminal, never probed for idleness,
\* beside one with a terminal that was probed.
C6_Witness ==
    /\ \E i \in DOMAIN sessions : ~sessions[i].TmuxRunning /\ sessions[i].snaps = <<>>
    /\ \E i \in DOMAIN sessions : sessions[i].TmuxRunning /\ sessions[i].snaps # <<>>

\* C7: with a running terminal and no review, needsInput says whether the
\* two snapshots are equal.
C7_IdleDetection ==
    \A i \in DOMAIN sessions :
        (sessions[i].TmuxRunning /\ sessions[i].PR = NoPR) =>
            /\ sessions[i].snaps # <<>>
            /\ sessions[i].NeedsInput = (sessions[i].snaps[1] = sessions[i].snaps[2])

\* Published: a session with equal snapshots beside one with differing ones.
C7_Witness ==
    /\ \E i \in DOMAIN sessions :
         /\ sessions[i].TmuxRunning /\ sessions[i].PR = NoPR
         /\ sessions[i].snaps = <<1, 1>> /\ sessions[i].NeedsInput
    /\ \E i \in DOMAIN sessions :
         /\ sessions[i].TmuxRunning /\ sessions[i].PR = NoPR
         /\ sessions[i].snaps = <<0, 1>> /\ ~sessions[i].NeedsInput

\* What enrichment gives a session from its own probes alone, whatever
\* the probes of the other sessions did.
ExpectedRunning(slug) == tmuxw[slug] \in Snapshots \X Snapshots
ExpectedPR(slug) == IF forge # NoForge /\ forgew[slug] \in PRs THEN forgew[slug] ELSE NoPR
ExpectedNeedsInput(slug) ==
    IF ExpectedPR(slug) # NoPR
    THEN ExpectedPR(slug).PipelineStatus = "failed" \/ ExpectedPR(slug).HasUnresolved
    ELSE ExpectedRunning(slug) /\ tmuxw[slug][1] = tmuxw[slug][2]
Expected(slug) ==
    [Slug |-> slug, TmuxRunning |-> ExpectedRunning(slug),
     NeedsInput |-> ExpectedNeedsInput(slug), PR |-> ExpectedPR(slug)]

\* C8: a failing forge query or liveness probe does not stop the cycle
\* (some step stays enabled until it is published), is never turned into
\* the cycle's error, and changes no other session: the published list
\* holds for every session what its own probes give, the failing session
\* with an absent review or terminalRunning = false, and m.err is nil.
C8_FaultIsolation ==
    /\ DOMAIN cycles # {} => ENABLED NextProbe
    /\ \A c \in DOMAIN cycles : cycles[c].err => cycles[c].pc = <<>>
    /\ (last.ev = "sessionsLoaded" /\ last.ok) =>
          /\ err = NoErr
          /\ Len(sessions) = Len(worktrees)
          /\ \A i \in DOMAIN sessions : Code(sessions[i]) = Expected(worktrees[i])

\* Published without error: the forge query of "main" failed and so did
\* the liveness probe of "feat"; "main" has its terminal, "feat" its review.
C8_Witness ==
    /\ last.ev = "sessionsLoaded" /\ last.ok /\ err = NoErr
    /\ forgew["main"] = ForgeErr /\ sessions[1].PR = NoPR /\ sessions[1].TmuxRunning
    /\ tmuxw["feat"] = TmuxErr /\ ~sessions[2].TmuxRunning /\ sessions[2].PR # NoPR

\* ------------------------------------------------ completion of user tasks

\* The completion messages of the tasks the user triggers.
TaskMessages ==
    {"worktreeCreated", "commitResult", "pushResult", "worktreeRemoved",
     "prCreated", "prUpdated"}

\* The error of the failed task is in one of the two places Update puts it.
ErrorRecorded ==
    \/ inputErr = TaskErr
    \/ statusLevel = "error" /\ statusText # ""

\* The handler has just dispatched fetchSessionsCmd: the newest cycle is in
\* flight and the commands it returned name it.
CycleDispatched ==
    /\ "fetch" \in last.cmds
    /\ loading
    /\ (nextCycle - 1) \in DOMAIN cycles

\* C9: after the completion message of a failed user task is handled the
\* error is recorded and the state is the one the message arrived in.
C9_FailureKeepsState ==
    (last.ev \in TaskMessages /\ ~last.ok) =>
        /\ ErrorRecorded
        /\ state = last.from

\* C10 as stated: after the completion message of a successful user task
\* is handled the transient error is cleared, the state is Normal and an
\* enrichment cycle has been dispatched.
C10_SuccessClearsReturnsRefreshes ==
    (last.ev \in TaskMessages /\ last.ok) =>
        /\ inputErr = ""
        /\ state = "Normal"
        /\ CycleDispatched

\* C10 amended: a successful commit, delete or create-review clears the
\* error, sets Normal and dispatches a cycle; a successful update-review
\* sets Normal and dispatches a cycle; a successful push dispatches a cycle
\* and leaves the state as it was; a successful create-worktree clears the
\* error, sets Normal and dispatches ensure-and-attach, and no cycle.
C10_SuccessPerTask ==
    (last.ev \in TaskMessages /\ last.ok) =>
        /\ last.ev \in {"commitResult", "worktreeRemoved", "prCreated"} =>
              inputErr = "" /\ state = "Normal" /\ CycleDispatched
        /\ last.ev = "prUpdated" => state = "Normal" /\ CycleDispatched
        /\ last.ev = "pushResult" => state = last.from /\ CycleDispatched
        /\ last.ev = "worktreeCreated" =>
              /\ inputErr = "" /\ state = "Normal"
              /\ last.cmds = {"ensureAndAttach"}
              /\ \E k \in DOMAIN tasks : tasks[k].kind = "ensure"

\* A push succeeds while the new-session dialog is open: the dialog stays
\* and the cycle is in flight.
C10_Witness ==
    /\ last.ev = "pushResult" /\ last.ok
    /\ last.from = "NewSession" /\ state = "NewSession"
    /\ CycleDispatched

\* ---------------------------------------------------------------- attaching

\* C11: the attach process runs only for a slug whose ensure-session
\* succeeded (its tmux session exists), and once the message of its return
\* is handled the state is Normal and an enrichment cycle is dispatched.
C11_AttachReturnsToNormal ==
    /\ \A k \in DOMAIN tasks :
          tasks[k].kind = "attach" => SessionExists(tasks[k].slug)
    /\ last.ev = "claudeExited" => state = "Normal" /\ CycleDispatched

\* ----------------------------------------------------------------- deleting

\* C12: no delete-worktree command is ever in flight for the session whose
\* path is the repository root, the primary worktree.
C12_NeverDeleteRoot ==
    \A k \in DOMAIN tasks :
        tasks[k].kind = "delete" =>
            tasks[k].slug # repoRoot /\ tasks[k].slug # Primary

\* ------------------------------------------------------------ visible errors

\* The text Update stores for the failure a message carries.
FailureText(ev) == IF ev = "pushResult" THEN "push failed" ELSE TaskErr

\* C13: after the failure of a user task (ensure/attach included) is
\* handled, its error message is on the screen.
C13_FailureVisible ==
    (last.ev \in TaskMessages \cup {"sessionEnsured"} /\ ~last.ok) =>
        FailureText(last.ev) \in View

\* C14 as stated: the delayed clear-status message (the only step that
\* takes a tick out of flight) never removes an error message that is on
\* the screen.
C14_TimerKeepsErrors ==
    [][(timers' < timers /\ statusLevel = "error" /\ statusText \in View)
          => statusText \in View']_vars

\* C14 amended: the delayed clear-status message empties the status line
\* whatever its level, and changes neither the dialog error, nor the
\* whole-screen error, nor the state.
C14_TimerClearsStatusOnly ==
    [][timers' < timers =>
          /\ statusText' = ""
          /\ inputErr' = inputErr /\ err' = err /\ state' = state]_vars

\* The tick has fired while a dialog shows a validation error: the error
\* is still on the screen.
C14_Witness ==
    /\ last.ev = "clearStatus"
    /\ statusText = ""
    /\ inputErr # "" /\ inputErr \in View

\* ---------------------------------------------------------------- validation

\* A field that holds nothing but white space.
Blank == {"", " "}

\* The step dispatched nothing and left the state as it was.
NothingDispatched ==
    /\ tasks' = tasks /\ cycles' = cycles /\ timers' = timers
    /\ last'.cmds = {}
    /\ state' = state

\* C15: enter in an input dialog whose required field is blank sets the
\* validation message of that field, dispatches nothing and keeps the state.
C15_EmptySubmitBlocked ==
    [][/\ (NewSessionEnter /\ nameInput \in Blank) =>
              inputErr' = "branch name cannot be empty" /\ NothingDispatched
       /\ (CommitEnter /\ nameInput \in Blank) =>
              inputErr' = "description cannot be empty" /\ NothingDispatched
       /\ (CreatePREnter /\ createPRTitle \in Blank) =>
              inputErr' = "title cannot be empty" /\ NothingDispatched
       /\ (CreatePREnter /\ createPRTitle \notin Blank /\ createPRBase \in Blank) =>
              inputErr' = "base branch cannot be empty" /\ NothingDispatched]_vars

\* The review dialog was submitted with a title of blanks: the message is
\* set, the dialog is still open and no command is in flight.
C15_Witness ==
    /\ last.ev = "key" /\ last.from = "CreatePR" /\ state = "CreatePR"
    /\ createPRTitle = " "
    /\ inputErr = "title cannot be empty"
    /\ tasks = <<>>

\* ------------------------------------------------------------------ cancelling

\* The commands that start work outside the event loop; textinput.Blink
\* only makes the cursor of the text input blink.
TaskCommands ==
    {"fetch", "createWorktree", "ensureAndAttach", "attach", "commit", "push",
     "deleteWorktree", "createPR", "updatePR", "openURL", "clearStatus"}

\* The step started no work outside the event loop.
NoTaskStarted ==
    /\ tasks' = tasks /\ cycles' = cycles /\ timers' = timers
    /\ last'.cmds \cap TaskCommands = {}

\* C16: the new-session key opens the dialog from Normal and cancel closes
\* it to Normal; neither step starts a task.
C16_NewThenCancel ==
    [][/\ KeyNewSession => state' = "NewSession" /\ NoTaskStarted
       /\ NewSessionEsc => state' = "Normal" /\ NoTaskStarted]_vars

\* The first two keys were the new-session key and cancel: the state is
\* Normal again and nothing but the startup cycle was ever dispatched.
C16_Witness ==
    /\ last.ev = "key" /\ last.keys = 2 /\ last.from = "NewSession"
    /\ state = "Normal"
    /\ tasks = <<>> /\ timers = 0 /\ nextCycle = 2

\* ---------------------------------------------------- owner of the session list

\* C17: m.sessions changes only in the step that handles a sessionsLoadedMsg
\* without error, and then it becomes that message's list as a whole; no
\* key, tick, resize, other message or background step changes it.
C17_SessionsOnlyByLoaded ==
    [][sessions' # sessions =>
          \E c \in DOMAIN cycles \ DOMAIN cycles' :
              /\ cycles[c].phase = "msg" /\ ~cycles[c].err
              /\ sessions' = cycles[c].list
              /\ last'.ev = "sessionsLoaded" /\ last'.ok]_vars

\* The list of the cycle a later trigger started is published, every entry
\* from that cycle, and the list items are built from it.
C17_Witness ==
    /\ last.ev = "sessionsLoaded" /\ last.ok
    /\ sessions # <<>>
    /\ \A i \in DOMAIN sessions : sessions[i].cyc = 2
    /\ items = buildItems(sessions)

\* C18: an ensure-session call for a slug that already has a session (the
\* second of two calls in succession) returns success and leaves the tmux
\* state as it was, and every successful call leaves the slug with one
\* registered session.
C18_EnsureIdempotent ==
    [][\A k \in DOMAIN tasks : \A ok \in BOOLEAN :
          SessionEnsured(k, ok) =>
              /\ SessionExists(tasks[k].slug) => ok /\ tmuxw' = tmuxw
              /\ ok => tmuxw'[tasks[k].slug] \in NewPanes \cup {tmuxw[tasks[k].slug]}
              /\ ok => tmuxw'[tasks[k].slug] \notin {NoTmux, TmuxErr}]_vars

\* A second ensure-session call for main found the session the first one
\* had created and went on to attach.
C18_Witness ==
    /\ last.ev = "sessionEnsured"
    /\ last.ok
    /\ \E k \in DOMAIN tasks :
          /\ tasks[k].kind = "attach"
          /\ tasks[k].slug = "main"
          /\ ~tasks[k].created
    /\ tmuxw["main"] \in NewPanes

\* C19: once the start-up listing has failed because no repository root
\* could be determined and the error screen is up, a key other than refresh
\* changes neither the dialog state nor the commands and cycles in flight.
C19_ErrorScreenKeysInert ==
    [][(/\ repoRoot = NoRoot
        /\ ~loading
        /\ err # NoErr
        /\ state = "Normal"
        /\ last'.ev = "key"
        /\ last'.keys = last.keys + 1
        /\ "fetch" \notin last'.cmds)
       => /\ state' = state
          /\ tasks' = tasks
          /\ cycles' = cycles]_vars

\* The user-triggered commands, each with the key command that starts it
\* and the message that ends it.
UserCommands ==
    [create   |-> [cmd |-> "createWorktree", msg |-> "worktreeCreated"],
     commit   |-> [cmd |-> "commit",         msg |-> "commitResult"],
     push     |-> [cmd |-> "push",           msg |-> "pushResult"],
     createPR |-> [cmd |-> "createPR",       msg |-> "prCreated"],
     updatePR |-> [cmd |-> "updatePR",       msg |-> "prUpdated"],
     delete   |-> [cmd |-> "deleteWorktree", msg |-> "worktreeRemoved"]]

\* The commands of one kind that have not delivered their message yet.
Pending(kind, q) == Cardinality({k \in DOMAIN q : q[k].kind = kind})

\* The step in which the event loop handles the message of task k.
Completion(kind, k, ok) ==
    CASE kind = "create"   -> WorktreeCreated(k, ok)
      [] kind = "commit"   -> CommitResult(k, ok)
      [] kind = "push"     -> PushResult(k, ok)
      [] kind = "createPR" -> PRCreated(k, ok)
      [] kind = "updatePR" -> PRUpdated(k, ok)
      [] kind = "delete"   -> WorktreeRemoved(k, ok)

\* A command that has returned gets its message handled: Bubble Tea sends
\* the value a finished command returns to the event loop, which handles it
\* as soon as it is not blocked by an attached session.
SpecFair ==
    /\ Spec
    /\ \A kind \in DOMAIN UserCommands :
          WF_vars(\E k \in 1..MaxKeys : \E ok \in BOOLEAN : Completion(kind, k, ok))
    /\ WF_vars(\E k \in 1..MaxKeys : \E ok \in BOOLEAN : createPRCmdCreate(k, ok))

\* No more refresh cycles can be started within MaxCycles.
CyclesUsedUp == nextCycle > MaxCycles

DispatchesCycle ==
    \/ KeyRefresh
    \/ \E k \in DOMAIN tasks :
          \/ ClaudeExited(k)
          \/ \E ok \in BOOLEAN :
                \/ CommitResult(k, ok)
                \/ WorktreeRemoved(k, ok)
                \/ PushResult(k, ok)
                \/ PRCreated(k, ok)
                \/ PRUpdated(k, ok)

\* C21: one enrichment cycle is in flight at startup; afterwards a cycle is
\* dispatched, one at a time, only by the refresh key or by the handling of
\* a completion message, and never by the tick or the clear-status timer.
C21_CycleDispatchOnly ==
    /\ DOMAIN cycles = {1} /\ nextCycle = 2
    /\ [][/\ nextCycle' # nextCycle =>
                /\ nextCycle' = nextCycle + 1
                /\ DOMAIN cycles' \ DOMAIN cycles = {nextCycle}
                /\ DispatchesCycle
          /\ DOMAIN cycles' \subseteq DOMAIN cycles \cup {nextCycle}
          /\ Tick \/ ClearStatus => nextCycle' = nextCycle /\ cycles' = cycles]_vars

\* The clear-status timer of a failed review update has fired, the startup
\* cycle has been published, and no second cycle has been dispatched.
C21_Witness ==
    /\ last.ev = "clearStatus"
    /\ nextCycle = 2
    /\ ~loading
    /\ DOMAIN cycles = {}

\* C22: whatever the forge CLI does (non-zero exit, timeout, unparsable
\* output, any candidate list), FetchPR of the detected backend returns a
\* nil error, a failure gives no review, and the cycle that asked is
\* published without an error and without a review for that session.
C22_FetchNeverFails ==
    \A b \in Range(worktrees) :
        "cli" \in DOMAIN forgew[b] =>
            /\ BackendFetchPR(forgew[b]).err = NoErr
            /\ forgew[b] \in CliFailures =>
                  /\ BackendFetchPR(forgew[b]).pr = NoPR
                  /\ \A c \in DOMAIN cycles : \A i \in DOMAIN cycles[c].list :
                        cycles[c].list[i].Slug = b => cycles[c].list[i].PR = NoPR
                  /\ \A i \in DOMAIN sessions :
                        sessions[i].Slug = b => sessions[i].PR = NoPR
                  /\ last.ev = "sessionsLoaded" /\ last.ok => err = NoErr

\* The forge CLI timed out and the cycle was published all the same, with
\* the session and no review.
C22_Witness ==
    /\ forgew["main"] = [cli |-> "timeout"]
    /\ last.ev = "sessionsLoaded"
    /\ last.ok
    /\ err = NoErr
    /\ Len(sessions) = 1
    /\ sessions[1].PR = NoPR

\* The raw state the detected backend's CLI gives an open review.
RawOpen == IF forge = "github" THEN "OPEN" ELSE "opened"

\* C23: the review published for a session is the first candidate of the
\* CLI's list whose raw state is open, or the first candidate if none is
\* open, or absent if the list is empty.  (Candidates carry their position
\* in the list as their number.)
C23_OpenCandidatePreferred ==
    \A i \in DOMAIN sessions :
        LET a == forgew[sessions[i].Slug]
            pr == sessions[i].PR
        IN ("cli" \in DOMAIN a /\ a.cli = "json") =>
              /\ a.list = <<>> => pr = NoPR
              /\ a.list # <<>> =>
                    /\ pr # NoPR
                    /\ pr.Number \in DOMAIN a.list
                    /\ \/ /\ a.list[pr.Number].State = RawOpen
                          /\ \A j \in 1..(pr.Number - 1) : a.list[j].State # RawOpen
                       \/ /\ pr.Number = 1
                          /\ \A j \in DOMAIN a.list : a.list[j].State # RawOpen

\* The CLI listed a merged review first and an open one second, and the
\* second one is attached.
C23_Witness ==
    /\ Len(sessions) = 1
    /\ "cli" \in DOMAIN forgew["main"]
    /\ forgew["main"].cli = "json"
    /\ Len(forgew["main"].list) = 2
    /\ forgew["main"].list[1].State \in {"merged", "MERGED"}
    /\ forgew["main"].list[2].State = RawOpen
    /\ sessions[1].PR # NoPR
    /\ sessions[1].PR.Number = 2

\* The normalized pipeline vocabulary of a review.
PipelineVocabulary ==
    {"success", "failed", "running", "pending", "canceled", "skipped", ""}

\* C24: the pipelineStatus of every review a backend produces is in the
\* normalized vocabulary.
C24_PipelineNormalized ==
    \A i \in DOMAIN sessions :
        sessions[i].PR # NoPR =>
            sessions[i].PR.PipelineStatus \in PipelineVocabulary

\* C25: the publish/draft keys of the manage dialog dispatch an update
\* whose draft flag is the opposite of the selected review's draft flag.
C25_UpdateFlipsDraft ==
    [][\A draft \in BOOLEAN :
          (/\ ManagePRDraft(draft)
           /\ selectedSession # NoSel
           /\ selectedSession.PR # NoPR)
          => /\ Len(tasks') = Len(tasks) + 1
             /\ tasks'[Len(tasks')].kind = "updatePR"
             /\ tasks'[Len(tasks')].draft = ~selectedSession.PR.Draft]_vars

\* The sessions of the cycles that have parsed git's list.
Parsed ==
    {cycles[c].list[i] : c \in {d \in DOMAIN cycles : cycles[d].phase = "parsed"},
                         i \in DOMAIN worktrees}

\* A character of a branch, lowercased and with "/" replaced by "-".
SlugChar(ch) == CASE ch = "A" -> "a" [] ch = "/" -> "-" [] OTHER -> ch

\* C26 as stated: the slug of every branch is the branch lowercased with
\* every "/" replaced by "-", and the slug of a slug is the slug itself.
C26_SlugIsLowerDash ==
    \A s \in Parsed :
        /\ Len(s.Slug) = Len(s.Branch)
        /\ \A i \in DOMAIN s.Branch : s.Slug[i] = SlugChar(s.Branch[i])
        /\ BranchToSlug(s.Slug) = s.Slug

\* C26 as the code has it: the same for every branch but the empty one,
\* whose slug is "unknown".
C26_SlugOfNonEmptyBranch ==
    \A s \in Parsed :
        /\ s.Branch # <<>> =>
              /\ Len(s.Slug) = Len(s.Branch)
              /\ \A i \in DOMAIN s.Branch : s.Slug[i] = SlugChar(s.Branch[i])
        /\ s.Branch = <<>> => s.Slug = Unknown
        /\ BranchToSlug(s.Slug) = s.Slug

\* The branch A/a was parsed into the slug a-a.
C26_Witness ==
    \E s \in Parsed : s.Branch = <<"A", "/", "a">> /\ s.Slug = <<"a", "-", "a">>

\* C27: a published session with a review needs input exactly if the
\* review's pipeline failed or it has unresolved threads, whatever idle
\* detection found; one without a review needs input exactly if its
\* terminal runs and idle detection fired.
C27_ReviewOverridesIdle ==
    \A i \in DOMAIN sessions :
        LET s == sessions[i]
        IN /\ s.PR # NoPR =>
                 s.NeedsInput = (s.PR.PipelineStatus = "failed" \/ s.PR.HasUnresolved)
           /\ s.PR = NoPR => s.NeedsInput = (s.TmuxRunning /\ IdleFired(s))
           /\ (s.PR = NoPR /\ ~s.TmuxRunning) => ~s.NeedsInput

\* Published: a session whose terminal is idle and whose review is green
\* and resolved does not need input, and a session with an idle terminal
\* and no review does.
C27_Witness ==
    /\ \E i \in DOMAIN sessions :
          /\ sessions[i].TmuxRunning
          /\ IdleFired(sessions[i])
          /\ sessions[i].PR # NoPR
          /\ sessions[i].PR.PipelineStatus = "success"
          /\ ~sessions[i].PR.HasUnresolved
          /\ ~sessions[i].NeedsInput
    /\ \E i \in DOMAIN sessions :
          /\ sessions[i].TmuxRunning
          /\ IdleFired(sessions[i])
          /\ sessions[i].PR = NoPR
          /\ sessions[i].NeedsInput

\* ----------------------------------------------- create-review command

\* A detected forge and two worktrees whose branches were or were not
\* pushed; no review exists yet.
InitCreatePR ==
    /\ InitFields
    /\ forge = "gitlab"
    /\ repoRoot = Primary
    /\ worktrees = <<"main", "feat">>
    /\ tmuxw = [s \in Slugs |-> NoTmux]
    /\ forgew \in [Slugs -> {NoUpstream, ForgeEmpty}]

NextCreatePR ==
    \/ \E idx \in 0..Cardinality(Slugs) : KeyMove(idx)
    \/ KeyPush
    \/ KeyManage
    \/ CreatePREsc
    \/ CreatePRTab
    \/ CreatePRSpace
    \/ \E v \in TitleInputs \cup BaseInputs : CreatePRType(v)
    \/ CreatePREnter
    \/ ManagePREsc
    \/ \E c \in 1..MaxCycles : RunCycle(c)
    \/ \E c \in 1..MaxCycles : HandleSessionsLoaded(c)
    \/ \E k \in 1..MaxKeys, ok \in BOOLEAN : PushResult(k, ok)
    \/ \E k \in 1..MaxKeys, ok \in BOOLEAN : createPRCmdPush(k, ok)
    \/ \E k \in 1..MaxKeys, ok \in BOOLEAN : createPRCmdCreate(k, ok)
    \/ \E k \in 1..MaxKeys, ok \in BOOLEAN : PRCreated(k, ok)

SpecCreatePR == InitCreatePR /\ [][NextCreatePR]_vars

\* The call histories a create-review command may have: nothing yet; no
\* upstream, then a push, then (only if it succeeded) CreatePR; or an
\* upstream, then CreatePR with no push.
CreatePRRuns ==
    {<<>>, <<<<"HasUpstream", FALSE>>, <<"Push", FALSE>>>>,
           <<<<"HasUpstream", FALSE>>, <<"Push", TRUE>>>>}
    \cup {<<<<"HasUpstream", FALSE>>, <<"Push", TRUE>>, <<"CreatePR", ok>>>> : ok \in BOOLEAN}
    \cup {<<<<"HasUpstream", TRUE>>, <<"CreatePR", ok>>>> : ok \in BOOLEAN}

\* C28: the create-review command pushes the branch before CreatePR when
\* the branch has no upstream and does not push when it has one; after a
\* failed push CreatePR is never called and the message the command
\* returns carries the failure.
C28_PushBeforeCreate ==
    /\ [](\A k \in DOMAIN tasks :
             tasks[k].kind = "createPR" => tasks[k].calls \in CreatePRRuns)
    /\ [][\A k \in DOMAIN tasks :
             /\ PRCreated(k, TRUE) => <<"CreatePR", TRUE>> \in Range(tasks[k].calls)
             /\ (\E ok \in BOOLEAN : PRCreated(k, ok)) /\ <<"Push", FALSE>> \in Range(tasks[k].calls)
                   => inputErr' = TaskErr /\ state' = state]_vars

\* A command that met no upstream, pushed, and then created the review.
C28_Witness ==
    \E k \in DOMAIN tasks :
        /\ tasks[k].kind = "createPR"
        /\ tasks[k].calls = <<<<"HasUpstream", FALSE>>, <<"Push", TRUE>>, <<"CreatePR", TRUE>>>>

\* --------------------------------------------------- manage-review key

\* C29: in Normal the manage-review key with a selected session and a
\* detected forge enters CreatePR when the session has no review and
\* ManagePR when it has one, dispatching no task; with no selected
\* session or no forge it changes nothing. Without a forge the two review
\* dialogs are never entered and no create-review or update-review task
\* is ever dispatched.
C29_ManageKeyNeedsForge ==
    /\ [][KeyManage =>
             /\ NoTaskStarted
             /\ IF selectedSession = NoSel \/ forge = NoForge
                THEN UNCHANGED <<modelVars, cycleVars, taskVars, worldVars>>
                ELSE IF selectedSession.PR = NoPR
                THEN state' = "CreatePR"
                ELSE state' = "ManagePR"]_vars
    /\ [](forge = NoForge =>
             /\ state \notin {"CreatePR", "ManagePR"}
             /\ \A k \in DOMAIN tasks : tasks[k].kind \notin {"createPR", "updatePR"})

\* The key was pressed in Normal on a session with a review.
C29_Witness ==
    /\ state = "ManagePR"
    /\ last.ev = "key" /\ last.from = "Normal"
    /\ forge # NoForge
    /\ selectedSession # NoSel
    /\ selectedSession.PR # NoPR

\* ---------------------------------------------------------- commit flow

\* C30: esc steps back one level in the commit flow and dispatches no
\* task: from Commit to CommitType, from CommitType to Normal; the commit
\* key in Normal enters CommitType only when a session is selected.
C30_CancelStepsBackOneLevel ==
    [][/\ CommitEsc => state' = "CommitType" /\ NoTaskStarted
       /\ CommitTypeEsc => state' = "Normal" /\ NoTaskStarted
       /\ KeyCommit => /\ NoTaskStarted
                       /\ state' = IF selectedSession # NoSel THEN "CommitType" ELSE "Normal"]_vars

\* Esc was pressed while the commit description was being composed.
C30_Witness ==
    /\ last.ev = "key" /\ last.from = "Commit"
    /\ state = "CommitType"
    /\ commitType # ""
    /\ tasks = <<>>

\* ------------------------------------------------ create-review dialog

\* One worktree with a pushed branch and no review, a detected forge, and
\* nothing but the manage-review key and the dialog's own keys; the key
\* count starts below zero so that a behaviour has MaxDialogKeys keys.
InitDialog ==
    /\ InitState
    /\ last = [NoEvent EXCEPT !.keys = MaxKeys - MaxDialogKeys]
    /\ forge = "gitlab"
    /\ repoRoot = Primary
    /\ worktrees = <<"main">>
    /\ tmuxw = [s \in Slugs |-> NoTmux]
    /\ forgew = [s \in Slugs |-> ForgeEmpty]

NextDialog ==
    \/ KeyManage
    \/ CreatePREsc
    \/ CreatePRTab
    \/ CreatePRSpace
    \/ \E v \in TitleInputs \cup BaseInputs : CreatePRType(v)
    \/ \E c \in 1..MaxCycles : RunCycle(c)
    \/ \E c \in 1..MaxCycles : HandleSessionsLoaded(c)

SpecDialog == InitDialog /\ [][NextDialog]_vars

\* The order in which tab visits the fields.
TabOrder == <<"title", "base", "draft">>

\* C31: in CreatePR every tab moves the focus one place forward in the
\* cycle title, base, draft, title (so three tabs in a row return it to
\* where it was), and leaves the draft flag and the state alone and
\* dispatches no task.
C31_TabCyclesFocus ==
    [][CreatePRTab =>
          /\ \E i \in 1..3 : /\ createPRField = TabOrder[i]
                             /\ createPRField' = TabOrder[(i % 3) + 1]
          /\ createPRDraft' = createPRDraft
          /\ state' = state
          /\ NoTaskStarted]_vars

\* The third tab brought the focus back to the title, with the draft
\* flag, set on the way, still set.
C31_Witness ==
    /\ state = "CreatePR"
    /\ last.ev = "key" /\ last.from = "CreatePR" /\ last.cmds = {"blink"}
    /\ createPRField = "title"
    /\ createPRDraft

\* C32: in CreatePR the toggle key flips the draft flag exactly when the
\* draft field has the focus (so a second toggle restores it) and leaves
\* it alone on the title and base fields; whenever CreatePR is entered the
\* flag is false.
C32_ToggleOnlyOnDraftField ==
    [][/\ CreatePRSpace =>
             createPRDraft' = IF createPRField = "draft" THEN ~createPRDraft ELSE createPRDraft
       /\ state # "CreatePR" /\ state' = "CreatePR" => createPRDraft' = FALSE]_vars

\* The toggle was pressed on the draft field and cleared the flag, which
\* an earlier toggle had set.
C32_Witness ==
    /\ state = "CreatePR"
    /\ last.ev = "key" /\ last.from = "CreatePR" /\ last.cmds = {}
    /\ createPRField = "draft"
    /\ ~createPRDraft

\* ------------------------------------------- delete dialog and refresh

\* Three worktrees, deckard started in the primary one, and the delete
\* dialog with the refresh pipeline; the key count starts below zero so
\* that a behaviour has MaxDialogKeys keys.
InitDeleteRace ==
    /\ InitState
    /\ last = [NoEvent EXCEPT !.keys = MaxKeys - MaxDialogKeys]
    /\ forge = NoForge
    /\ repoRoot = Primary
    /\ worktrees = <<"main", "feat", "fix">>
    /\ tmuxw = [w \in Slugs \cup {"fix"} |-> NoTmux]
    /\ forgew = [w \in Slugs \cup {"fix"} |-> ForgeEmpty]

NextDeleteRace ==
    \/ \E idx \in 0..2 : KeyMove(idx)
    \/ KeyDelete
    \/ DeleteEsc
    \/ DeleteEnter
    \/ \E c \in 1..MaxCycles : RunCycle(c)
    \/ \E c \in 1..MaxCycles : HandleSessionsLoaded(c)
    \/ \E k \in 1..MaxDialogKeys, ok \in BOOLEAN : WorktreeRemoved(k, ok)

SpecDeleteRace == InitDeleteRace /\ [][NextDeleteRace]_vars

\* The worktree a confirm would delete now (path and branch are both
\* determined by the slug), or none.
Target == IF selectedSession = NoSel THEN <<>> ELSE <<selectedSession.Slug>>

\* C33: the delete task dispatched on confirm targets the session that was
\* selected when DeleteConfirm was entered: confirm deletes the session
\* selected at that moment, and while DeleteConfirm stays active that
\* session remains the one selected on entry, also across a
\* sessionsLoadedMsg that replaces the list (a selection that vanished
\* dispatches nothing).
C33_DeleteTargetsConfirmedSession ==
    [][/\ DeleteEnter /\ selectedSession # NoSel =>
             tasks' = Append(tasks, [kind |-> "delete", slug |-> Target[1]])
       /\ state = "DeleteConfirm" /\ state' = "DeleteConfirm" /\ Target' # <<>> =>
             Target' = Target]_vars

\* ------------------------------------------------- overlapping cycles

\* C34: a result of an earlier-dispatched cycle never replaces the result
\* of a later-dispatched one: the cycle whose list is published only moves
\* forward in dispatch order.
C34_LaterCycleWins ==
    [][sessions # <<>> /\ sessions' # <<>> => sessions'[1].cyc >= sessions[1].cyc]_vars

\* C35: the loading flag is true exactly while at least one dispatched
\* cycle has not yet had its result handled.
C35_LoadingWhileOutstanding == loading <=> DOMAIN cycles # {}

\* ------------------------------------------------ concurrent attaches

\* One worktree without a tmux session; the attach key, the two halves of
\* tmux.EnsureSession as separate steps, and the refresh after detaching.
InitEnsure ==
    /\ InitFields
    /\ forge = NoForge
    /\ repoRoot = Primary
    /\ worktrees = <<"main">>
    /\ tmuxw = [w \in Slugs |-> NoTmux]
    /\ forgew = [w \in Slugs |-> ForgeEmpty]

NextEnsure ==
    \/ KeyAttach
    \/ \E k \in 1..MaxKeys : SessionExistsAsked(k)
    \/ \E k \in 1..MaxKeys, ok \in BOOLEAN : SessionEnsured(k, ok)
    \/ \E k \in 1..MaxKeys : ClaudeExited(k)
    \/ \E c \in 1..MaxCycles : RunCycle(c)
    \/ \E c \in 1..MaxCycles : HandleSessionsLoaded(c)

SpecEnsure == InitEnsure /\ [][NextEnsure]_vars

\* C36: of two ensure-and-attach tasks for the same slug neither reports
\* an error, however they interleave: an ensure task never reports an
\* error for a slug that has a session (tmux keeps one session per name).
C36_ConcurrentEnsureSucceeds ==
    [][\A k \in DOMAIN tasks :
          SessionEnsured(k, FALSE) => ~SessionExists(tasks[k].slug)]_vars

\* ------------------------------------------------ attention flag floor

\* C37: in every published list a session that needs input has a running
\* terminal or a review; one with neither never needs input.
C37_NeedsInputHasCause ==
    \A i \in DOMAIN sessions :
        sessions[i].NeedsInput => sessions[i].TmuxRunning \/ sessions[i].PR # NoPR

\* Published side by side: a session with an idle terminal and no review
\* that needs input, and one with no terminal and no review that does not.
C37_Witness ==
    \E i, j \in DOMAIN sessions :
        /\ sessions[i].PR = NoPR /\ sessions[i].TmuxRunning /\ sessions[i].NeedsInput
        /\ sessions[j].PR = NoPR /\ ~sessions[j].TmuxRunning /\ ~sessions[j].NeedsInput

\* ------------------------------------------------------- commit message

\* The typ column of the commit-type table.
TableTypes == {"feat", "fix", "refactor", "docs", "test", "chore", "ci", "perf"}

\* C38: whenever the state is Commit the recorded commit type is one of
\* the eight types of the table, and every commit task in flight carries
\* a message made of such a type and a description that is not blank.
C38_CommitTypeFromTable ==
    /\ Cardinality(TableTypes) = 8
    /\ {commitTypes[n].typ : n \in DOMAIN commitTypes} = TableTypes
    /\ state = "Commit" => commitType \in TableTypes
    /\ \A k \in DOMAIN tasks :
          tasks[k].kind = "commit" =>
              /\ tasks[k].message[1] \in TableTypes
              /\ tasks[k].message[2] \notin {"", " "}

\* A commit task is in flight whose message is the type picked in the
\* menu and the description typed after it.
C38_Witness ==
    /\ state = "Commit"
    /\ commitType = "feat"
    /\ \E k \in DOMAIN tasks :
          tasks[k].kind = "commit" /\ tasks[k].message = <<"feat", "feat">>

\* ------------------------------------------------- clear-status timers

\* C39: a delayed clear-status message clears only the status message
\* that scheduled it.  Every status message schedules one timer and the
\* timers all run for the same time, so the one that fires is the oldest
\* in flight and the message on display belongs to the newest: a timer
\* that removes a displayed message is the only one in flight.
C39_TimerClearsOwnStatus ==
    [][timers' < timers /\ statusText # "" => timers = 1]_vars

====
